---------------------------- MODULE Spec2Model ----------------------------
(***************************************************************************)
(* Model of one voice session of the server (apps/server/app).             *)
(*                                                                         *)
(* VoicePipeline.run is the ingest coroutine; every finalized transcript   *)
(* spawns one asyncio task running VoicePipeline._process_llm_and_tts.     *)
(* All coroutines share one event loop: a coroutine runs without           *)
(* interruption from one await to the next, so the reply tasks take steps  *)
(* only while the ingest coroutine is suspended (waiting for an inbound    *)
(* chunk, in feed_audio, or in the recognition scope exit).                *)
(*                                                                         *)
(* The pipeline is written against the provider interfaces (VADProvider,   *)
(* ASRStreamHandler, LLMProvider, TTSProvider); what a provider answers    *)
(* (speech or not, a transcript or None, a reply, a chunk, an exception)   *)
(* is an input of the model.  The specification SpecSV models the session  *)
(* with the providers main.py constructs for the audio path:               *)
(* SileroVADProvider and SenseVoiceStreamHandler.                          *)
(*                                                                         *)
(* Audio bytes are modelled by their position in the inbound stream; a     *)
(* byte string is a sequence of runs <<lo, hi>> standing for the bytes at  *)
(* positions lo .. hi-1.                                                   *)
(***************************************************************************)
EXTENDS Integers, Sequences, FiniteSets, TLC

\* VoicePipeline.VAD_CHUNK_SIZE
VAD_CHUNK_SIZE == 1024

\* Bounds of the model: inbound chunks of a session, reply tasks of a session,
\* chunks yielded by all synthesis streams of a session.
MaxInbound == 3
MaxTasks == 2
MaxChunks == 2

\* chunk_size of SenseVoiceStreamHandler._process_buffer
chunk_size == 9600

\* Sizes of the inbound messages the client may send.
ChunkSizes == {VAD_CHUNK_SIZE \div 2, 2 * VAD_CHUNK_SIZE + 100}

\* Bound of SpecTwo: inbound chunks of each of the two sessions.
MaxTwoInbound == 2

\* Size of the inbound messages in SpecTwo: a frame and a remainder.
TwoChunkSize == VAD_CHUNK_SIZE + 100

\* Bound of SpecHandler: calls of the methods of one stream handler.
MaxCalls == 7

\* Bound of SpecThread: inbound chunks of the session.
MaxThreadInbound == 1

\* BUFFER_SIZE_TO_WRITE of audio_handler in src/server.py
BUFFER_SIZE_TO_WRITE == 4096

\* Bound of SpecRec: messages of one connection of the recording endpoint.
MaxRecMsgs == 4

\* Bound of SpecCli: calls of the microphone callback.
MaxFrames == 3

\* Sizes of the messages in SpecRec: empty, less than the write size, exactly
\* the write size, more than it.
RecSizes == {0, 1500, BUFFER_SIZE_TO_WRITE, BUFFER_SIZE_TO_WRITE + 904}

\* Sizes of the inbound messages in SpecSV: less than a frame, and more than
\* two recognition chunks.
SvChunkSizes == {VAD_CHUNK_SIZE \div 2, 2 * chunk_size + 100}

VARIABLES
    pc,               \* where VoicePipeline.run is
    chunk,            \* audio_chunk of the current loop iteration
    received,         \* bytes yielded by websocket.iter_bytes() so far
    nIn,              \* chunks yielded by websocket.iter_bytes() so far
    vad_buffer,       \* self._vad_buffer
    vadCalls,         \* calls of self.vad.is_speech so far
    vadInput,         \* the frames passed to is_speech, concatenated
    lastVad,          \* what is_speech answered last in the current pass
    active_llm_task,  \* self.active_llm_task (0 is None)
    tasks,            \* the tasks made by asyncio.create_task
    nSpawned,         \* number of tasks made so far
    nPolls,           \* calls of get_finalized_transcript so far
    nFinal,           \* transcripts returned by get_finalized_transcript so far
    outbound,         \* what websocket.send_bytes has written, in order
    flushes,          \* calls of the stream handler's __aexit__
    exitCause,        \* how the loop of run ended
    asr_buffer,       \* SenseVoiceStreamHandler._buffer
    asr_finalized,    \* SenseVoiceStreamHandler._finalized_transcript (0 is None)
    asrInput,         \* the inputs of self._model.generate, concatenated
    asrCalls,         \* calls of self._model.generate so far
    asrErrors,        \* errors logged by _process_buffer
    vadErrors,        \* errors logged by SileroVADProvider.is_speech
    asrFinalCalls,    \* calls of self._model.generate with is_final=True so far
    asrSegments,      \* assignments of a text to _finalized_transcript so far
    polled,           \* what SenseVoiceStreamHandler.get_finalized_transcript
                      \* returned, call by call (0 is None)
    fed,              \* the chunks passed to asr_stream.feed_audio, concatenated
    nFeeds,           \* calls of asr_stream.feed_audio so far
    other,            \* SpecTwo: the state of the session of the other connection
    focus,            \* SpecTwo: the connection whose session the variables
                      \* above describe
    spawnedAt,        \* SpecPass: for each task, the number of chunks received
                      \* when create_task made it (0: not made)
    workers,          \* SpecThread: the worker threads running _process_buffer
    rec_pc,           \* src/server.py: where audio_handler is
    buffer,           \* src/server.py: buffer of audio_handler
    wf,               \* src/server.py: the wave writer ("none" is None)
    wfFrames,         \* src/server.py: what wf.writeframes has written, in order
    recReceived,      \* src/server.py: bytes receive_bytes has returned so far
    recMsgs,          \* src/server.py: messages receive_bytes has returned so far
    cli_pc,           \* cli: where amain is
    is_running,       \* cli: AppState.is_running
    net_pc,           \* cli: where network_task is
    tui_pc,           \* cli: where tui_task is
    save_pc,          \* cli: where save_audio_task is
    wave_file,        \* cli: MicrophoneProcessor.wave_file ("none" is None)
    network_queue,    \* cli: items in MicrophoneProcessor.network_queue
    file_queue,       \* cli: items in MicrophoneProcessor.file_queue
    micFrames,        \* cli: calls of _pyaudio_callback so far
    savedFrames       \* cli: calls of wave_file.writeframes that returned

feedVars == <<fed, nFeeds>>
recVars == <<rec_pc, buffer, wf, wfFrames, recReceived, recMsgs>>
cliVars == <<cli_pc, is_running, net_pc, tui_pc, save_pc, wave_file, network_queue,
             file_queue, micFrames, savedFrames>>
peerVars == <<other, focus>>
handlerVars == <<asr_buffer, asr_finalized, asrInput, asrCalls, asrErrors,
                 asrFinalCalls, asrSegments>>
svVars == <<handlerVars, polled, vadErrors>>
ingestVars == <<pc, chunk, received, nIn, vad_buffer, vadCalls, vadInput, lastVad,
                svVars, feedVars, peerVars, spawnedAt, workers, recVars, cliVars>>
bufferVars == <<vad_buffer, vadCalls, vadInput>>
taskVars == <<active_llm_task, tasks, nSpawned, outbound>>
exitVars == <<flushes, exitCause>>
pollVars == <<nPolls, nFinal>>
vars == <<pc, chunk, received, nIn, vad_buffer, vadCalls, vadInput, lastVad,
          active_llm_task, tasks, nSpawned, nPolls, nFinal, outbound, flushes,
          exitCause, svVars, feedVars, peerVars, spawnedAt, workers, recVars, cliVars>>

-----------------------------------------------------------------------------
\* Byte strings as runs of stream positions.

RunLen(r) == r[2] - r[1]

RECURSIVE BLen(_)
\* len(b)
BLen(b) == IF b = <<>> THEN 0 ELSE RunLen(Head(b)) + BLen(Tail(b))

\* b + c (bytearray.extend), adjacent runs joined
BCat(b, c) ==
    IF b = <<>> THEN c
    ELSE IF c = <<>> THEN b
    ELSE IF b[Len(b)][2] = c[1][1]
         THEN SubSeq(b, 1, Len(b) - 1) \o <<<<b[Len(b)][1], c[1][2]>>>> \o Tail(c)
         ELSE b \o c

RECURSIVE BTake(_, _)
\* b[:n]
BTake(b, n) ==
    IF n <= 0 \/ b = <<>> THEN <<>>
    ELSE IF RunLen(Head(b)) <= n
         THEN <<Head(b)>> \o BTake(Tail(b), n - RunLen(Head(b)))
         ELSE <<<<Head(b)[1], Head(b)[1] + n>>>>

RECURSIVE BDrop(_, _)
\* b[n:]
BDrop(b, n) ==
    IF b = <<>> THEN <<>>
    ELSE IF n <= 0 THEN b
    ELSE IF RunLen(Head(b)) <= n
         THEN BDrop(Tail(b), n - RunLen(Head(b)))
         ELSE <<<<Head(b)[1] + n, Head(b)[2]>>>> \o Tail(b)

-----------------------------------------------------------------------------
\* Reply tasks.

TaskIds == 1 .. MaxTasks

Terminal == {"completed", "cancelled", "failed"}

\* the calls of asyncio.to_thread(self._process_buffer, ...): the one of
\* feed_audio and the one of __aexit__
Workers == {"feed", "flush"}

\* a worker thread: st is the statement of _process_buffer it is at ("idle":
\* not running), final its is_final argument, part its chunk_to_process, rest
\* the value of self._buffer[chunk_size:] it has computed and not yet stored
IdleWorker == [st |-> "idle", final |-> FALSE, part |-> <<>>, rest |-> <<>>]

\* st: where the coroutine is; text: the transcript it was made for; reply:
\* what chat returned; fetched: chunks the synthesis stream has yielded; sent:
\* chunks send_bytes has written; cancelBy: who called cancel()
NoTask == [st |-> "none", cancelBy |-> "none", text |-> 0, reply |-> "none",
           fetched |-> 0, sent |-> 0]

RECURSIVE SumFetched(_)
\* chunks yielded by the synthesis streams of tasks 1 .. n
SumFetched(n) == IF n = 0 THEN 0 ELSE tasks[n].fetched + SumFetched(n - 1)

\* asyncio.Task.done()
Done(t) == tasks[t].st \in Terminal

\* created and not done
Live(t) == tasks[t].st \in {"new", "llm", "fetch", "send"}

\* started and suspended in chat, in a chunk fetch or in send_bytes
Running(t) == tasks[t].st \in {"llm", "fetch", "send"}

\* in the loop "async for tts_chunk in tts_stream: await websocket.send_bytes"
InSendLoop(t) == tasks[t].st \in {"fetch", "send"}

\* asyncio.Task.cancel(): the request is recorded, CancelledError is thrown
\* into the coroutine when the task next runs
CancelTask(ts, t, who) == [ts EXCEPT ![t].cancelBy = who]

\* Faulty variant of IngestSuspended: waiting for the next inbound chunk blocks
\* the event loop.
IngestSuspended_Blocking == pc \in {"feed", "exiting", "closed"}

\* the ingest coroutine is suspended, so the event loop may run a task
IngestSuspended == pc \in {"recv", "feed", "exiting", "closed"}

-----------------------------------------------------------------------------
\* What get_pipeline and VoicePipeline.__init__ make for a connection: a new
\* pipeline object with its own buffer and handle, and the connection's own
\* websocket.
NewSession ==
    [pc |-> "connecting", chunk |-> <<>>, received |-> 0, nIn |-> 0,
     vad_buffer |-> <<>>, vadCalls |-> 0, vadInput |-> <<>>, lastVad |-> "none",
     active_llm_task |-> 0, tasks |-> [t \in TaskIds |-> NoTask], nSpawned |-> 0,
     nPolls |-> 0, nFinal |-> 0, outbound |-> <<>>, flushes |-> 0,
     exitCause |-> "none", fed |-> <<>>, nFeeds |-> 0]

Init ==
    /\ pc = "connecting"
    /\ chunk = <<>>
    /\ received = 0
    /\ nIn = 0
    /\ vad_buffer = <<>>
    /\ vadCalls = 0
    /\ vadInput = <<>>
    /\ lastVad = "none"
    /\ active_llm_task = 0
    /\ tasks = [t \in TaskIds |-> NoTask]
    /\ nSpawned = 0
    /\ nPolls = 0
    /\ nFinal = 0
    /\ outbound = <<>>
    /\ flushes = 0
    /\ exitCause = "none"
    /\ asr_buffer = <<>>
    /\ asr_finalized = 0
    /\ asrInput = <<>>
    /\ asrCalls = 0
    /\ asrErrors = 0
    /\ vadErrors = 0
    /\ asrFinalCalls = 0
    /\ asrSegments = 0
    /\ polled = <<>>
    /\ fed = <<>>
    /\ nFeeds = 0
    /\ other = NewSession
    /\ focus = 1
    /\ spawnedAt = [t \in TaskIds |-> 0]
    /\ workers = [w \in Workers |-> IdleWorker]
    /\ rec_pc = "accepted"
    /\ buffer = <<>>
    /\ wf = "none"
    /\ wfFrames = <<>>
    /\ recReceived = 0
    /\ recMsgs = 0
    /\ cli_pc = "init"
    /\ is_running = TRUE
    /\ net_pc = "none"
    /\ tui_pc = "none"
    /\ save_pc = "none"
    /\ wave_file = "none"
    /\ network_queue = 0
    /\ file_queue = 0
    /\ micFrames = 0
    /\ savedFrames = 0

-----------------------------------------------------------------------------
\* VoicePipeline.run, the ingest coroutine.

\* "if self.active_llm_task and not self.active_llm_task.done()"
TaskActive == active_llm_task # 0 /\ ~Done(active_llm_task)

\* the barge-in branch: the tasks after "self.active_llm_task.cancel()"
BargeInTasks ==
    IF TaskActive THEN CancelTask(tasks, active_llm_task, "bargein") ELSE tasks

\* Faulty variant of BargeInHandle: a speech frame clears the handle whatever
\* it refers to.
BargeInHandle_Always == IF active_llm_task # 0 THEN 0 ELSE active_llm_task

\* Faulty variant of BargeInHandle: the handle is not cleared.
BargeInHandle_Kept == active_llm_task

\* the barge-in branch: the handle after "self.active_llm_task = None"
BargeInHandle == IF TaskActive THEN 0 ELSE active_llm_task

\* Faulty variant of FinallyTasks: the tracked task is not cancelled.
FinallyTasks_NoCancel == tasks

\* the finally block: the tasks after "self.active_llm_task.cancel()"
FinallyTasks ==
    IF TaskActive THEN CancelTask(tasks, active_llm_task, "close") ELSE tasks

\* Faulty variant of ExitLoop: run returns without the handler's __aexit__.
ExitLoop_NoScopeExit(cause) ==
    /\ tasks' = FinallyTasks
    /\ exitCause' = cause
    /\ pc' = "closed"
    /\ chunk' = <<>>
    /\ lastVad' = "none"
    /\ UNCHANGED <<received, nIn, active_llm_task, nSpawned, nFinal, outbound, flushes, svVars, feedVars, peerVars, spawnedAt, workers, recVars, cliVars>>

\* The loop of run ends: the except clauses log, the finally block cancels the
\* tracked task, and leaving the "async with" calls the handler's __aexit__,
\* which suspends in asyncio.to_thread.
ExitLoop(cause) ==
    /\ tasks' = FinallyTasks
    /\ exitCause' = cause
    /\ flushes' = flushes + 1
    /\ pc' = "exiting"
    /\ chunk' = <<>>
    /\ lastVad' = "none"
    /\ UNCHANGED <<received, nIn, active_llm_task, nSpawned, nFinal, outbound, svVars, feedVars, peerVars, spawnedAt, workers, recVars, cliVars>>

\* "async with self.asr.stream_transcribe() as asr_stream" is entered
Open ==
    /\ pc = "connecting"
    /\ pc' = "recv"
    /\ UNCHANGED <<chunk, received, nIn, bufferVars, lastVad>>
    /\ UNCHANGED <<taskVars, pollVars, exitVars, svVars, feedVars, peerVars, spawnedAt, workers, recVars, cliVars>>

\* Faulty variant of OpenFail: the failure is swallowed and the loop is entered.
OpenFail_Continues ==
    /\ pc = "connecting"
    /\ pc' = "recv"
    /\ exitCause' = "open_failed"
    /\ UNCHANGED <<chunk, received, nIn, bufferVars, lastVad>>
    /\ UNCHANGED <<taskVars, pollVars, flushes, svVars, feedVars, peerVars, spawnedAt, workers, recVars, cliVars>>

\* stream_transcribe() or __aenter__ raises: run raises before the try block
OpenFail ==
    /\ pc = "connecting"
    /\ pc' = "closed"
    /\ exitCause' = "open_failed"
    /\ UNCHANGED <<chunk, received, nIn, bufferVars, lastVad>>
    /\ UNCHANGED <<taskVars, pollVars, flushes, svVars, feedVars, peerVars, spawnedAt, workers, recVars, cliVars>>

\* Faulty variant of Receive: run waits for the running tasks before it takes
\* the next chunk.
Receive_WhenIdle(n) ==
    /\ pc = "recv"
    /\ \A t \in TaskIds : ~Running(t)
    /\ nIn < MaxInbound
    /\ chunk' = <<<<received, received + n>>>>
    /\ received' = received + n
    /\ nIn' = nIn + 1
    /\ fed' = BCat(fed, chunk')
    /\ nFeeds' = nFeeds + 1
    /\ pc' = "feed"
    /\ UNCHANGED <<bufferVars, lastVad, taskVars, pollVars, exitVars, svVars, peerVars, spawnedAt, workers, recVars, cliVars>>

\* Faulty variant of Receive: a chunk shorter than a frame is not fed to the
\* recognition stream.
Receive_ShortNotFed(n) ==
    /\ pc = "recv"
    /\ nIn < MaxInbound
    /\ chunk' = <<<<received, received + n>>>>
    /\ received' = received + n
    /\ nIn' = nIn + 1
    /\ IF n < VAD_CHUNK_SIZE
       THEN UNCHANGED feedVars
       ELSE /\ fed' = BCat(fed, chunk')
            /\ nFeeds' = nFeeds + 1
    /\ pc' = "feed"
    /\ UNCHANGED <<bufferVars, lastVad, taskVars, pollVars, exitVars, svVars, peerVars, spawnedAt, workers, recVars, cliVars>>

\* iter_bytes() yields a chunk of n bytes; feed_audio(audio_chunk) is called
\* with it and suspends
Receive(n) ==
    /\ pc = "recv"
    /\ nIn < MaxInbound
    /\ chunk' = <<<<received, received + n>>>>
    /\ received' = received + n
    /\ nIn' = nIn + 1
    /\ fed' = BCat(fed, chunk')
    /\ nFeeds' = nFeeds + 1
    /\ pc' = "feed"
    /\ UNCHANGED <<bufferVars, lastVad, taskVars, pollVars, exitVars, svVars, peerVars, spawnedAt, workers, recVars, cliVars>>

\* the client disconnects: iter_bytes() ends, or WebSocketDisconnect is caught
Disconnect ==
    /\ pc = "recv"
    /\ ExitLoop("disconnect")
    /\ UNCHANGED <<bufferVars, nPolls>>

\* receiving fails with another exception: "except Exception"
StreamError ==
    /\ pc = "recv"
    /\ ExitLoop("stream_error")
    /\ UNCHANGED <<bufferVars, nPolls>>

\* Faulty variant of Extend: the chunk is put in front of the buffered bytes.
Extend_Prepend(buf, c) == BCat(c, buf)

\* "self._vad_buffer.extend(audio_chunk)"
Extend(buf, c) == BCat(buf, c)

\* feed_audio returns; the chunk is appended to the frame buffer
FeedReturn ==
    /\ pc = "feed"
    /\ vad_buffer' = Extend(vad_buffer, chunk)
    /\ pc' = "vad"
    /\ UNCHANGED <<chunk, received, nIn, vadCalls, vadInput, lastVad>>
    /\ UNCHANGED <<taskVars, pollVars, exitVars, svVars, feedVars, peerVars, spawnedAt, workers, recVars, cliVars>>

\* feed_audio raises: "except Exception"
FeedRaise ==
    /\ pc = "feed"
    /\ ExitLoop("chunk_error")
    /\ UNCHANGED <<bufferVars, nPolls>>

\* Faulty variant of FrameReady: ">" for ">=".
FrameReady_Strict == BLen(vad_buffer) > VAD_CHUNK_SIZE

\* "while len(self._vad_buffer) >= self.VAD_CHUNK_SIZE"
FrameReady == BLen(vad_buffer) >= VAD_CHUNK_SIZE

\* "vad_chunk = self._vad_buffer[: self.VAD_CHUNK_SIZE]"
FrontFrame(buf) == BTake(buf, VAD_CHUNK_SIZE)

\* Faulty variant of RestAfterFrame: the slice starts one byte early.
RestAfterFrame_OffByOne(buf) == BDrop(buf, VAD_CHUNK_SIZE - 1)

\* "self._vad_buffer = self._vad_buffer[self.VAD_CHUNK_SIZE :]"
RestAfterFrame(buf) == BDrop(buf, VAD_CHUNK_SIZE)

\* one iteration of the while loop; is_speech answers isSpeech
VadFrame(isSpeech) ==
    /\ pc = "vad"
    /\ FrameReady
    /\ vadInput' = BCat(vadInput, FrontFrame(vad_buffer))
    /\ vad_buffer' = RestAfterFrame(vad_buffer)
    /\ vadCalls' = vadCalls + 1
    /\ lastVad' = IF isSpeech THEN "speech" ELSE "silence"
    /\ IF isSpeech
       THEN /\ tasks' = BargeInTasks
            /\ active_llm_task' = BargeInHandle
       ELSE UNCHANGED <<tasks, active_llm_task>>
    /\ UNCHANGED <<pc, chunk, received, nIn, nSpawned, outbound, pollVars, exitVars, svVars, feedVars, peerVars, spawnedAt, workers, recVars, cliVars>>

\* is_speech raises on the frame just sliced off: "except Exception"
VadRaise ==
    /\ pc = "vad"
    /\ FrameReady
    /\ vadInput' = BCat(vadInput, FrontFrame(vad_buffer))
    /\ vad_buffer' = RestAfterFrame(vad_buffer)
    /\ vadCalls' = vadCalls + 1
    /\ ExitLoop("chunk_error")
    /\ UNCHANGED nPolls

\* get_finalized_transcript() returns None (or an empty string, which
\* "if transcript" treats alike); back to iter_bytes()
PollNone ==
    /\ pc = "vad"
    /\ ~FrameReady
    /\ pc' = "recv"
    /\ chunk' = <<>>
    /\ lastVad' = "none"
    /\ nPolls' = nPolls + 1
    /\ UNCHANGED <<received, nIn, bufferVars, taskVars, nFinal, exitVars, svVars, feedVars, peerVars, spawnedAt, workers, recVars, cliVars>>

\* the transcript this poll returns: the next finalized segment
Transcript == nFinal + 1

\* Faulty variant of SpawnTasks: no task is made while one is active.
SpawnTasks_SkipIfActive ==
    IF TaskActive THEN tasks
    ELSE [tasks EXCEPT ![nSpawned + 1] = [NoTask EXCEPT !.st = "new", !.text = Transcript]]

\* Faulty variant of SpawnTasks: the task the handle referred to is cancelled
\* before the new one replaces it.
SpawnTasks_CancelsPrevious ==
    [BargeInTasks EXCEPT ![nSpawned + 1] = [NoTask EXCEPT !.st = "new", !.text = Transcript]]

\* the tasks after "asyncio.create_task(self._process_llm_and_tts(...))"
SpawnTasks ==
    [tasks EXCEPT ![nSpawned + 1] = [NoTask EXCEPT !.st = "new", !.text = Transcript]]

\* get_finalized_transcript() returns a transcript; a task is created for it
\* and the handle is set to it
PollTranscript ==
    /\ pc = "vad"
    /\ ~FrameReady
    /\ nSpawned < MaxTasks
    /\ tasks' = SpawnTasks
    /\ nSpawned' = nSpawned + 1
    /\ active_llm_task' = nSpawned + 1
    /\ pc' = "recv"
    /\ chunk' = <<>>
    /\ lastVad' = "none"
    /\ nPolls' = nPolls + 1
    /\ nFinal' = nFinal + 1
    /\ UNCHANGED <<received, nIn, bufferVars, outbound, exitVars, svVars, feedVars, peerVars, spawnedAt, workers, recVars, cliVars>>

\* get_finalized_transcript() raises: "except Exception"
PollRaise ==
    /\ pc = "vad"
    /\ ~FrameReady
    /\ ExitLoop("chunk_error")
    /\ nPolls' = nPolls + 1
    /\ UNCHANGED bufferVars

\* Faulty variant of AExitReturn: after the scope exit run goes back to
\* receiving.
AExitReturn_Resumes ==
    /\ pc = "exiting"
    /\ pc' = "recv"
    /\ UNCHANGED <<chunk, received, nIn, bufferVars, lastVad>>
    /\ UNCHANGED <<taskVars, pollVars, exitVars, svVars, feedVars, peerVars, spawnedAt, workers, recVars, cliVars>>

\* Faulty variant of AExitReturn: run waits for every task it made before it
\* returns.
AExitReturn_AwaitsTasks ==
    /\ pc = "exiting"
    /\ \A t \in TaskIds : ~Live(t)
    /\ pc' = "closed"
    /\ UNCHANGED <<chunk, received, nIn, bufferVars, lastVad>>
    /\ UNCHANGED <<taskVars, pollVars, exitVars, svVars, feedVars, peerVars, spawnedAt, workers, recVars, cliVars>>

\* __aexit__ returns; run returns
AExitReturn ==
    /\ pc = "exiting"
    /\ pc' = "closed"
    /\ UNCHANGED <<chunk, received, nIn, bufferVars, lastVad>>
    /\ UNCHANGED <<taskVars, pollVars, exitVars, svVars, feedVars, peerVars, spawnedAt, workers, recVars, cliVars>>

-----------------------------------------------------------------------------
\* VoicePipeline._process_llm_and_tts, one task per transcript.

\* Faulty variant of TaskStart: a task that failed is run again.
TaskStart_Retries(t) ==
    /\ IngestSuspended
    /\ tasks[t].st \in {"new", "failed"}
    /\ tasks[t].cancelBy = "none"
    /\ tasks' = [tasks EXCEPT ![t].st = "llm"]
    /\ UNCHANGED <<ingestVars, active_llm_task, nSpawned, pollVars, outbound, exitVars>>

\* the task runs for the first time and suspends in "await self.llm.chat(text)"
TaskStart(t) ==
    /\ IngestSuspended
    /\ tasks[t].st = "new"
    /\ tasks[t].cancelBy = "none"
    /\ tasks' = [tasks EXCEPT ![t].st = "llm"]
    /\ UNCHANGED <<ingestVars, active_llm_task, nSpawned, pollVars, outbound, exitVars>>

\* what the chat-completions request of OpenAILLMProvider.chat may do
ApiOutcomes == {"ok", "openai_error", "other_error"}

\* Variant of ChatText: an error of the request gives the empty text, for which
\* nothing is synthesized.
ChatText_Silent(o) == IF o = "ok" THEN "reply" ELSE ""

\* OpenAILLMProvider.chat: the text it returns; an error of the request is
\* caught and an apology text is returned in its place
ChatText(o) == IF o = "ok" THEN "reply" ELSE "apology"

\* chat returns the reply; the stream is made and its first chunk is awaited
LlmReturn(t) ==
    /\ IngestSuspended
    /\ tasks[t].st = "llm"
    /\ tasks[t].cancelBy = "none"
    /\ tasks' = [tasks EXCEPT ![t].st = "fetch", ![t].reply = "reply"]
    /\ UNCHANGED <<ingestVars, active_llm_task, nSpawned, pollVars, outbound, exitVars>>

\* OpenAILLMProvider.chat returns, whatever the request did; the stream is made
\* and its first chunk is awaited
LlmReturnOpenAI(t) ==
    /\ IngestSuspended
    /\ tasks[t].st = "llm"
    /\ tasks[t].cancelBy = "none"
    /\ \E o \in ApiOutcomes :
          tasks' = [tasks EXCEPT ![t].st = "fetch", ![t].reply = ChatText(o)]
    /\ UNCHANGED <<ingestVars, active_llm_task, nSpawned, pollVars, outbound, exitVars>>

\* Faulty variant of LlmRaise: the error of chat leaves the task and ends the
\* loop of run.
LlmRaise_Propagates(t) ==
    /\ IngestSuspended
    /\ pc \in {"recv", "feed"}
    /\ tasks[t].st = "llm"
    /\ tasks[t].cancelBy = "none"
    /\ tasks' = [tasks EXCEPT ![t].st = "failed"]
    /\ pc' = "exiting"
    /\ exitCause' = "stream_error"
    /\ flushes' = flushes + 1
    /\ UNCHANGED <<chunk, received, nIn, bufferVars, lastVad, active_llm_task,
                   nSpawned, pollVars, outbound, svVars, feedVars, peerVars, spawnedAt, workers, recVars, cliVars>>

\* chat raises (a provider that lets an error out): "except Exception" of the
\* task
LlmRaise(t) ==
    /\ IngestSuspended
    /\ tasks[t].st = "llm"
    /\ tasks[t].cancelBy = "none"
    /\ tasks' = [tasks EXCEPT ![t].st = "failed"]
    /\ UNCHANGED <<ingestVars, active_llm_task, nSpawned, pollVars, outbound, exitVars>>

\* chunks the synthesis streams of the session have yielded
TotalFetched == SumFetched(MaxTasks)

\* Faulty variant of ChunkToSend: the first chunk of the stream is sent again.
ChunkToSend_First(t) == <<t, 1>>

\* the chunk passed to send_bytes: the one just fetched
ChunkToSend(t) == <<t, tasks[t].fetched>>

\* the stream yields a chunk; send_bytes(tts_chunk) is called and suspends
TtsChunk(t) ==
    /\ IngestSuspended
    /\ tasks[t].st = "fetch"
    /\ tasks[t].cancelBy = "none"
    /\ TotalFetched < MaxChunks
    /\ tasks' = [tasks EXCEPT ![t].st = "send", ![t].fetched = @ + 1]
    /\ UNCHANGED <<ingestVars, active_llm_task, nSpawned, pollVars, outbound, exitVars>>

\* Variant of CompletionHandle: the task clears the handle when it still
\* refers to the task.
CompletionHandle_Cleared(t) == IF active_llm_task = t THEN 0 ELSE active_llm_task

\* self.active_llm_task after task t returned: the task body has no assignment
\* to it
CompletionHandle(t) == active_llm_task

\* the stream is exhausted; the task returns
TtsEnd(t) ==
    /\ IngestSuspended
    /\ tasks[t].st = "fetch"
    /\ tasks[t].cancelBy = "none"
    /\ tasks' = [tasks EXCEPT ![t].st = "completed"]
    /\ active_llm_task' = CompletionHandle(t)
    /\ UNCHANGED <<ingestVars, nSpawned, pollVars, outbound, exitVars>>

\* the stream raises: "except Exception" of the task
TtsRaise(t) ==
    /\ IngestSuspended
    /\ tasks[t].st = "fetch"
    /\ tasks[t].cancelBy = "none"
    /\ tasks' = [tasks EXCEPT ![t].st = "failed"]
    /\ UNCHANGED <<ingestVars, active_llm_task, nSpawned, pollVars, outbound, exitVars>>

\* send_bytes returns: the chunk is on the outbound channel; next chunk awaited
SendReturn(t) ==
    /\ IngestSuspended
    /\ tasks[t].st = "send"
    /\ tasks[t].cancelBy = "none"
    /\ outbound' = Append(outbound, ChunkToSend(t))
    /\ tasks' = [tasks EXCEPT ![t].st = "fetch", ![t].sent = @ + 1]
    /\ UNCHANGED <<ingestVars, active_llm_task, nSpawned, pollVars, exitVars>>

\* send_bytes raises: "except Exception" of the task
SendRaise(t) ==
    /\ IngestSuspended
    /\ tasks[t].st = "send"
    /\ tasks[t].cancelBy = "none"
    /\ tasks' = [tasks EXCEPT ![t].st = "failed"]
    /\ UNCHANGED <<ingestVars, active_llm_task, nSpawned, pollVars, outbound, exitVars>>

\* Faulty variant of CancelDeliver: the chunks the task has sent are taken
\* back.
CancelDeliver_Retracts(t) ==
    /\ IngestSuspended
    /\ Live(t)
    /\ tasks[t].cancelBy # "none"
    /\ tasks' = [tasks EXCEPT ![t].st = "cancelled"]
    /\ outbound' = LET Others(c) == c[1] # t IN SelectSeq(outbound, Others)
    /\ UNCHANGED <<ingestVars, active_llm_task, nSpawned, pollVars, exitVars>>

\* a task whose cancellation was requested runs next: CancelledError is thrown
\* at its await (or before its first step) and the task ends
CancelDeliver(t) ==
    /\ IngestSuspended
    /\ Live(t)
    /\ tasks[t].cancelBy # "none"
    /\ tasks' = [tasks EXCEPT ![t].st = "cancelled"]
    /\ UNCHANGED <<ingestVars, active_llm_task, nSpawned, pollVars, outbound, exitVars>>

-----------------------------------------------------------------------------
Next ==
    \/ Open
    \/ OpenFail
    \/ \E n \in ChunkSizes : Receive(n)
    \/ Disconnect
    \/ StreamError
    \/ FeedReturn
    \/ FeedRaise
    \/ \E b \in BOOLEAN : VadFrame(b)
    \/ VadRaise
    \/ PollNone
    \/ PollTranscript
    \/ PollRaise
    \/ AExitReturn
    \/ \E t \in TaskIds : TaskStart(t)
    \/ \E t \in TaskIds : LlmReturn(t)
    \/ \E t \in TaskIds : LlmRaise(t)
    \/ \E t \in TaskIds : TtsChunk(t)
    \/ \E t \in TaskIds : TtsEnd(t)
    \/ \E t \in TaskIds : TtsRaise(t)
    \/ \E t \in TaskIds : SendReturn(t)
    \/ \E t \in TaskIds : SendRaise(t)
    \/ \E t \in TaskIds : CancelDeliver(t)

Spec == Init /\ [][Next]_vars

\* The session with the language-model and synthesis providers main.py
\* installs: OpenAILLMProvider.chat and EdgeTTSProvider.stream catch their
\* errors (chat returns a text, the stream ends), so neither raises into the
\* task. Voice activity and recognition are as in Spec.
NextOpenAI ==
    \/ Open
    \/ OpenFail
    \/ \E n \in ChunkSizes : Receive(n)
    \/ Disconnect
    \/ StreamError
    \/ FeedReturn
    \/ FeedRaise
    \/ \E b \in BOOLEAN : VadFrame(b)
    \/ VadRaise
    \/ PollNone
    \/ PollTranscript
    \/ PollRaise
    \/ AExitReturn
    \/ \E t \in TaskIds : TaskStart(t)
    \/ \E t \in TaskIds : LlmReturnOpenAI(t)
    \/ \E t \in TaskIds : TtsChunk(t)
    \/ \E t \in TaskIds : TtsEnd(t)
    \/ \E t \in TaskIds : SendReturn(t)
    \/ \E t \in TaskIds : SendRaise(t)
    \/ \E t \in TaskIds : CancelDeliver(t)

SpecOpenAI == Init /\ [][NextOpenAI]_vars

-----------------------------------------------------------------------------
\* The session of Spec, with the loop iteration in which each task is made
\* on record.

\* Faulty variant of PollTranscriptStamped: the poll is taken when the chunk
\* has been appended to the buffer, before the frames of the pass are looked
\* at.
PollTranscriptStamped_BeforeFrames ==
    /\ pc = "vad"
    /\ nSpawned < MaxTasks
    /\ tasks' = SpawnTasks
    /\ nSpawned' = nSpawned + 1
    /\ active_llm_task' = nSpawned + 1
    /\ spawnedAt' = [spawnedAt EXCEPT ![nSpawned + 1] = nIn]
    /\ IF FrameReady
       THEN UNCHANGED <<pc, chunk, lastVad>>
       ELSE pc' = "recv" /\ chunk' = <<>> /\ lastVad' = "none"
    /\ nPolls' = nPolls + 1
    /\ nFinal' = nFinal + 1
    /\ UNCHANGED <<received, nIn, bufferVars, outbound, exitVars, svVars, feedVars, peerVars,
                   workers, recVars, cliVars>>

\* PollTranscript: the while loop has ended, get_finalized_transcript()
\* returns a transcript and create_task makes the task, in the iteration for
\* chunk number nIn
PollTranscriptStamped ==
    /\ pc = "vad"
    /\ ~FrameReady
    /\ nSpawned < MaxTasks
    /\ tasks' = SpawnTasks
    /\ nSpawned' = nSpawned + 1
    /\ active_llm_task' = nSpawned + 1
    /\ spawnedAt' = [spawnedAt EXCEPT ![nSpawned + 1] = nIn]
    /\ pc' = "recv"
    /\ chunk' = <<>>
    /\ lastVad' = "none"
    /\ nPolls' = nPolls + 1
    /\ nFinal' = nFinal + 1
    /\ UNCHANGED <<received, nIn, bufferVars, outbound, exitVars, svVars, feedVars, peerVars,
                   workers, recVars, cliVars>>

NextPass ==
    \/ Open
    \/ OpenFail
    \/ \E n \in ChunkSizes : Receive(n)
    \/ Disconnect
    \/ StreamError
    \/ FeedReturn
    \/ FeedRaise
    \/ \E b \in BOOLEAN : VadFrame(b)
    \/ VadRaise
    \/ PollNone
    \/ PollTranscriptStamped
    \/ PollRaise
    \/ AExitReturn
    \/ \E t \in TaskIds : TaskStart(t)
    \/ \E t \in TaskIds : LlmReturn(t)
    \/ \E t \in TaskIds : LlmRaise(t)
    \/ \E t \in TaskIds : TtsChunk(t)
    \/ \E t \in TaskIds : TtsEnd(t)
    \/ \E t \in TaskIds : TtsRaise(t)
    \/ \E t \in TaskIds : SendReturn(t)
    \/ \E t \in TaskIds : SendRaise(t)
    \/ \E t \in TaskIds : CancelDeliver(t)

SpecPass == Init /\ [][NextPass]_vars

-----------------------------------------------------------------------------
\* The session with SileroVADProvider and SenseVoiceStreamHandler.

\* what the voice-activity model does with a frame; "error": it raises
VadOutcomes == {"speech", "silence", "error"}

\* SileroVADProvider.is_speech: the except clause logs and returns False
IsSpeech(o) == o = "speech"

\* Faulty variant of Iterations: a call that is not final processes one chunk
\* at most ("if" for "while").
Iterations_Once(buf, is_final) ==
    IF is_final
    THEN (BLen(buf) + chunk_size - 1) \div chunk_size
    ELSE IF BLen(buf) >= chunk_size THEN 1 ELSE 0

\* iterations of the while loop of _process_buffer when no generate call fails
Iterations(buf, is_final) ==
    IF is_final /\ BLen(buf) % chunk_size > 0
    THEN BLen(buf) \div chunk_size + 1
    ELSE BLen(buf) \div chunk_size

\* bytes sliced off the buffer by k iterations
Consumed(buf, k) ==
    IF k * chunk_size < BLen(buf) THEN k * chunk_size ELSE BLen(buf)

\* _process_buffer makes k calls of generate out of n: all of them, or the
\* k-th raises and the except clause logs and breaks
ProcessOutcome(n, k, err) == IF err THEN k >= 1 ELSE k = n

\* Faulty variant of SlotWritten: a call that is not final also keeps its text.
SlotWritten_AnyCall(n, is_final, err, hasText) == ~err /\ n >= 1 /\ hasText

\* whether a run of _process_buffer of n iterations assigns
\* _finalized_transcript: its last call of generate has the final flag, does
\* not raise and answers with a text
SlotWritten(n, is_final, err, hasText) == is_final /\ ~err /\ n >= 1 /\ hasText

\* whether a run of _process_buffer that makes k calls out of n makes the one
\* with the final flag: the last one, when the buffer is then empty
FinalCallMade(n, k, is_final) == is_final /\ n >= 1 /\ k = n

\* _process_buffer on the buffer buf: the calls of generate it makes and what
\* it leaves in the handler
ProcessBuffer(buf, is_final) ==
    LET n == Iterations(buf, is_final)
    IN \E k \in 0 .. n, err \in BOOLEAN, hasText \in BOOLEAN :
           /\ ProcessOutcome(n, k, err)
           /\ asr_buffer' = BDrop(buf, Consumed(buf, k))
           /\ asrInput' = BCat(asrInput, BTake(buf, Consumed(buf, k)))
           /\ asrCalls' = asrCalls + k
           /\ asrErrors' = asrErrors + (IF err THEN 1 ELSE 0)
           /\ asrFinalCalls' = asrFinalCalls + (IF FinalCallMade(n, k, is_final) THEN 1 ELSE 0)
           /\ IF SlotWritten(n, is_final, err, hasText)
              THEN /\ asr_finalized' = asrSegments + 1
                   /\ asrSegments' = asrSegments + 1
              ELSE UNCHANGED <<asr_finalized, asrSegments>>

\* feed_audio of SenseVoiceStreamHandler returns: the chunk was appended to
\* _buffer and _process_buffer(is_final=False) ran in a worker thread; then
\* the chunk is appended to the frame buffer
SvFeedReturn ==
    /\ pc = "feed"
    /\ ProcessBuffer(BCat(asr_buffer, chunk), FALSE)
    /\ vad_buffer' = Extend(vad_buffer, chunk)
    /\ pc' = "vad"
    /\ UNCHANGED <<chunk, received, nIn, vadCalls, vadInput, lastVad>>
    /\ UNCHANGED <<polled, vadErrors, taskVars, pollVars, exitVars, feedVars, peerVars, spawnedAt, workers, recVars, cliVars>>

\* Faulty variant of SvVadFrame: is_speech lets the error of the model out,
\* which ends the loop of run ("except Exception").
SvVadFrame_Propagates(o) ==
    /\ pc = "vad"
    /\ FrameReady
    /\ vadInput' = BCat(vadInput, FrontFrame(vad_buffer))
    /\ vad_buffer' = RestAfterFrame(vad_buffer)
    /\ vadCalls' = vadCalls + 1
    /\ IF o = "error"
       THEN /\ ExitLoop("chunk_error")
            /\ UNCHANGED nPolls
       ELSE /\ lastVad' = IF IsSpeech(o) THEN "speech" ELSE "silence"
            /\ IF IsSpeech(o)
               THEN /\ tasks' = BargeInTasks
                    /\ active_llm_task' = BargeInHandle
               ELSE UNCHANGED <<tasks, active_llm_task>>
            /\ UNCHANGED <<pc, chunk, received, nIn, nSpawned, outbound, pollVars,
                           exitVars, svVars, feedVars, peerVars, spawnedAt, workers, recVars, cliVars>>

\* one iteration of the while loop of run with SileroVADProvider: the model
\* answers o for the frame
SvVadFrame(o) ==
    /\ pc = "vad"
    /\ FrameReady
    /\ vadInput' = BCat(vadInput, FrontFrame(vad_buffer))
    /\ vad_buffer' = RestAfterFrame(vad_buffer)
    /\ vadCalls' = vadCalls + 1
    /\ vadErrors' = vadErrors + (IF o = "error" THEN 1 ELSE 0)
    /\ lastVad' = IF IsSpeech(o) THEN "speech" ELSE "silence"
    /\ IF IsSpeech(o)
       THEN /\ tasks' = BargeInTasks
            /\ active_llm_task' = BargeInHandle
       ELSE UNCHANGED <<tasks, active_llm_task>>
    /\ UNCHANGED <<pc, chunk, received, nIn, nSpawned, outbound, pollVars, exitVars>>
    /\ UNCHANGED <<handlerVars, polled, feedVars, peerVars, spawnedAt, workers, recVars, cliVars>>

\* get_finalized_transcript: what it returns for the slot
PollResult(slot) == slot

\* Faulty variant of SlotAfterPoll: the slot is not cleared.
SlotAfterPoll_Kept(slot) == slot

\* get_finalized_transcript: the slot after the call
SlotAfterPoll(slot) == IF slot # 0 THEN 0 ELSE slot

\* get_finalized_transcript of SenseVoiceStreamHandler is called at the end
\* of a pass; a transcript, if it returns one, gets a task
SvPoll ==
    /\ pc = "vad"
    /\ ~FrameReady
    /\ polled' = Append(polled, PollResult(asr_finalized))
    /\ asr_finalized' = SlotAfterPoll(asr_finalized)
    /\ nPolls' = nPolls + 1
    /\ IF PollResult(asr_finalized) # 0
       THEN /\ nSpawned < MaxTasks
            /\ tasks' = SpawnTasks
            /\ nSpawned' = nSpawned + 1
            /\ active_llm_task' = nSpawned + 1
            /\ nFinal' = nFinal + 1
       ELSE UNCHANGED <<tasks, nSpawned, active_llm_task, nFinal>>
    /\ pc' = "recv"
    /\ chunk' = <<>>
    /\ lastVad' = "none"
    /\ UNCHANGED <<received, nIn, bufferVars, outbound, exitVars, feedVars, peerVars, spawnedAt, workers, recVars, cliVars>>
    /\ UNCHANGED <<asr_buffer, asrInput, asrCalls, asrErrors, asrFinalCalls, asrSegments>>
    /\ UNCHANGED vadErrors

\* __aexit__ of SenseVoiceStreamHandler returns: _process_buffer(is_final=True)
\* ran in a worker thread; run returns
SvAExitReturn ==
    /\ pc = "exiting"
    /\ ProcessBuffer(asr_buffer, TRUE)
    /\ pc' = "closed"
    /\ UNCHANGED <<chunk, received, nIn, bufferVars, lastVad>>
    /\ UNCHANGED <<polled, vadErrors, taskVars, pollVars, exitVars, feedVars, peerVars, spawnedAt, workers, recVars, cliVars>>

NextSV ==
    \/ Open
    \/ \E n \in SvChunkSizes : Receive(n)
    \/ Disconnect
    \/ StreamError
    \/ SvFeedReturn
    \/ \E o \in VadOutcomes : SvVadFrame(o)
    \/ SvPoll
    \/ SvAExitReturn

SpecSV == Init /\ [][NextSV]_vars

-----------------------------------------------------------------------------
\* The session with SenseVoiceStreamHandler, the worker threads of
\* asyncio.to_thread as processes of their own, one statement of
\* _process_buffer a step. pc = "feed" and "exiting": feed_audio and __aexit__
\* are called; "feed_wait" and "exit_wait": they are suspended in to_thread.

\* whether the worker thread w is running _process_buffer
Busy(w) == workers[w].st # "idle"

\* asyncio.to_thread starts _process_buffer(is_final) in worker w
StartWorker(w, is_final) ==
    [workers EXCEPT ![w] = [IdleWorker EXCEPT !.st = "test", !.final = is_final]]

\* where the task running run can take a cancellation: suspended in
\* iter_bytes or in the to_thread of feed_audio
CancelTarget == pc \in {"recv", "feed_wait"}

\* feed_audio up to its await: the chunk is appended to _buffer and the worker
\* thread is started
ThFeedStart ==
    /\ pc = "feed"
    /\ asr_buffer' = BCat(asr_buffer, chunk)
    /\ workers' = StartWorker("feed", FALSE)
    /\ pc' = "feed_wait"
    /\ UNCHANGED <<chunk, received, nIn, bufferVars, lastVad, taskVars, pollVars, exitVars>>
    /\ UNCHANGED <<asr_finalized, asrInput, asrCalls, asrErrors, asrFinalCalls, asrSegments>>
    /\ UNCHANGED <<polled, vadErrors, feedVars, peerVars, spawnedAt, recVars, cliVars>>

\* the worker thread of feed_audio has finished: feed_audio returns and the
\* chunk is appended to the frame buffer
ThFeedReturn ==
    /\ pc = "feed_wait"
    /\ ~Busy("feed")
    /\ vad_buffer' = Extend(vad_buffer, chunk)
    /\ pc' = "vad"
    /\ UNCHANGED <<chunk, received, nIn, vadCalls, vadInput, lastVad>>
    /\ UNCHANGED <<svVars, taskVars, pollVars, exitVars, feedVars, peerVars, spawnedAt, workers, recVars, cliVars>>

\* The task running run is cancelled while run is suspended: CancelledError
\* is raised at the await, passes "except Exception", the finally block runs
\* and leaving the "async with" calls __aexit__. The worker thread of
\* feed_audio is not stopped by it.
Cancelled ==
    /\ CancelTarget
    /\ ExitLoop("cancelled")
    /\ UNCHANGED <<bufferVars, nPolls>>

\* __aexit__ up to its await: the worker thread of the final run is started
ThFlushStart ==
    /\ pc = "exiting"
    /\ workers' = StartWorker("flush", TRUE)
    /\ pc' = "exit_wait"
    /\ UNCHANGED <<chunk, received, nIn, bufferVars, lastVad, taskVars, pollVars, exitVars>>
    /\ UNCHANGED <<svVars, feedVars, peerVars, spawnedAt, recVars, cliVars>>

\* the worker thread of __aexit__ has finished: __aexit__ and run return
ThAExitReturn ==
    /\ pc = "exit_wait"
    /\ ~Busy("flush")
    /\ pc' = "closed"
    /\ UNCHANGED <<chunk, received, nIn, bufferVars, lastVad, taskVars, pollVars, exitVars>>
    /\ UNCHANGED <<svVars, feedVars, peerVars, spawnedAt, workers, recVars, cliVars>>

\* the loop condition of _process_buffer: another iteration, or the thread
\* returns
WTest(w) ==
    /\ workers[w].st = "test"
    /\ workers' = [workers EXCEPT ![w].st =
                      IF \/ BLen(asr_buffer) >= chunk_size
                         \/ (workers[w].final /\ BLen(asr_buffer) > 0)
                      THEN "slice" ELSE "idle"]
    /\ UNCHANGED <<pc, chunk, received, nIn, bufferVars, lastVad, taskVars, pollVars, exitVars>>
    /\ UNCHANGED <<svVars, feedVars, peerVars, spawnedAt, recVars, cliVars>>

\* "chunk_to_process = self._buffer[:chunk_size]"
WSlice(w) ==
    /\ workers[w].st = "slice"
    /\ workers' = [workers EXCEPT ![w].st = "tail",
                                  ![w].part = BTake(asr_buffer, chunk_size)]
    /\ UNCHANGED <<pc, chunk, received, nIn, bufferVars, lastVad, taskVars, pollVars, exitVars>>
    /\ UNCHANGED <<svVars, feedVars, peerVars, spawnedAt, recVars, cliVars>>

\* "self._buffer[chunk_size:]" is evaluated
WTail(w) ==
    /\ workers[w].st = "tail"
    /\ workers' = [workers EXCEPT ![w].st = "store",
                                  ![w].rest = BDrop(asr_buffer, chunk_size)]
    /\ UNCHANGED <<pc, chunk, received, nIn, bufferVars, lastVad, taskVars, pollVars, exitVars>>
    /\ UNCHANGED <<svVars, feedVars, peerVars, spawnedAt, recVars, cliVars>>

\* "self._buffer = ..." stores it
WStore(w) ==
    /\ workers[w].st = "store"
    /\ asr_buffer' = workers[w].rest
    /\ workers' = [workers EXCEPT ![w].st = "generate", ![w].rest = <<>>]
    /\ UNCHANGED <<pc, chunk, received, nIn, bufferVars, lastVad, taskVars, pollVars, exitVars>>
    /\ UNCHANGED <<asr_finalized, asrInput, asrCalls, asrErrors, asrFinalCalls, asrSegments>>
    /\ UNCHANGED <<polled, vadErrors, feedVars, peerVars, spawnedAt, recVars, cliVars>>

\* final_flag_for_chunk is computed and generate is called with the chunk: it
\* answers (with a text or without), or it raises and the except clause
\* logs and breaks
WGenerate(w, err, hasText) ==
    /\ workers[w].st = "generate"
    /\ LET flag == workers[w].final /\ BLen(asr_buffer) = 0
       IN /\ asrInput' = BCat(asrInput, workers[w].part)
          /\ asrCalls' = asrCalls + 1
          /\ asrErrors' = asrErrors + (IF err THEN 1 ELSE 0)
          /\ asrFinalCalls' = asrFinalCalls + (IF flag THEN 1 ELSE 0)
          /\ IF flag /\ ~err /\ hasText
             THEN /\ asr_finalized' = asrSegments + 1
                  /\ asrSegments' = asrSegments + 1
             ELSE UNCHANGED <<asr_finalized, asrSegments>>
    /\ workers' = [workers EXCEPT ![w].st = IF err THEN "idle" ELSE "test",
                                  ![w].part = <<>>]
    /\ UNCHANGED <<pc, chunk, received, nIn, bufferVars, lastVad, taskVars, pollVars, exitVars>>
    /\ UNCHANGED <<asr_buffer, polled, vadErrors, feedVars, peerVars, spawnedAt, recVars, cliVars>>

NextThread ==
    \/ Open
    \/ \E n \in SvChunkSizes : nIn < MaxThreadInbound /\ Receive(n)
    \/ Disconnect
    \/ Cancelled
    \/ ThFeedStart
    \/ ThFeedReturn
    \/ \E o \in VadOutcomes : SvVadFrame(o)
    \/ SvPoll
    \/ ThFlushStart
    \/ ThAExitReturn
    \/ \E w \in Workers : WTest(w)
    \/ \E w \in Workers : WSlice(w)
    \/ \E w \in Workers : WTail(w)
    \/ \E w \in Workers : WStore(w)
    \/ \E w \in Workers, err \in BOOLEAN, hasText \in BOOLEAN : WGenerate(w, err, hasText)

SpecThread == Init /\ [][NextThread]_vars

-----------------------------------------------------------------------------
\* audio_handler of src/server.py, the recording endpoint.

\* the variables of the voice session, which this endpoint does not have
sessionVars == <<pc, chunk, received, nIn, bufferVars, lastVad, taskVars, pollVars,
                 exitVars, svVars, feedVars, peerVars, spawnedAt, workers>>

\* "if len(buffer) >= BUFFER_SIZE_TO_WRITE"
WriteDue(buf) == BLen(buf) >= BUFFER_SIZE_TO_WRITE

\* Faulty variant of BufferAfterWrite: the buffer is not cleared.
BufferAfterWrite_Kept(buf) == buf

\* "buffer.clear()" after the write
BufferAfterWrite(buf) == <<>>

\* wave.open succeeds and the parameters are set; the loop starts
RecOpen ==
    /\ rec_pc = "accepted"
    /\ wf' = "open"
    /\ rec_pc' = "loop"
    /\ UNCHANGED <<buffer, wfFrames, recReceived, recMsgs, sessionVars, cliVars>>

\* wave.open raises: "except Exception", and the finally block finds no file
RecOpenFail ==
    /\ rec_pc = "accepted"
    /\ rec_pc' = "closed"
    /\ UNCHANGED <<buffer, wf, wfFrames, recReceived, recMsgs, sessionVars, cliVars>>

\* one iteration of the loop: receive_bytes returns n bytes; an empty message
\* is skipped, else it is appended to the buffer, and the buffer is written
\* and cleared when it has reached the write size
RecReceive(n) ==
    /\ rec_pc = "loop"
    /\ recMsgs < MaxRecMsgs
    /\ recMsgs' = recMsgs + 1
    /\ recReceived' = recReceived + n
    /\ LET extended == BCat(buffer, <<<<recReceived, recReceived + n>>>>)
       IN IF n = 0
          THEN UNCHANGED <<buffer, wfFrames>>
          ELSE IF WriteDue(extended)
               THEN /\ wfFrames' = BCat(wfFrames, extended)
                    /\ buffer' = BufferAfterWrite(extended)
               ELSE /\ buffer' = extended
                    /\ UNCHANGED wfFrames
    /\ UNCHANGED <<rec_pc, wf, sessionVars, cliVars>>

\* receive_bytes raises: WebSocketDisconnect, or another exception (a text
\* message); the except clause logs and the finally block starts
RecEnd ==
    /\ rec_pc = "loop"
    /\ rec_pc' = "cleanup"
    /\ UNCHANGED <<buffer, wf, wfFrames, recReceived, recMsgs, sessionVars, cliVars>>

\* the finally block: "if buffer" writes what is left; the buffer is not
\* cleared here
RecCleanupWrite ==
    /\ rec_pc = "cleanup"
    /\ wfFrames' = IF buffer # <<>> THEN BCat(wfFrames, buffer) ELSE wfFrames
    /\ rec_pc' = "closing"
    /\ UNCHANGED <<buffer, wf, recReceived, recMsgs, sessionVars, cliVars>>

\* the finally block: wf.close()
RecClose ==
    /\ rec_pc = "closing"
    /\ wf' = "closed"
    /\ rec_pc' = "closed"
    /\ UNCHANGED <<buffer, wfFrames, recReceived, recMsgs, sessionVars, cliVars>>

NextRec ==
    \/ RecOpen
    \/ RecOpenFail
    \/ \E n \in RecSizes : RecReceive(n)
    \/ RecEnd
    \/ RecCleanupWrite
    \/ RecClose

SpecRec == Init /\ [][NextRec]_vars

-----------------------------------------------------------------------------
\* The command-line client, src/apps/cli/app/main.py: amain, the microphone
\* callback and the three tasks of asyncio.gather.

\* the variables of the server programs, which the client does not have
serverVars == <<sessionVars, recVars>>

\* amain: mic_processor.start() sets up the recording file (or fails to and
\* leaves wave_file None) and starts the microphone; gather makes the tasks
CliStart(fileOk) ==
    /\ cli_pc = "init"
    /\ wave_file' = IF fileOk THEN "open" ELSE "none"
    /\ cli_pc' = "gather"
    /\ net_pc' = "connect"
    /\ tui_pc' = "test"
    /\ save_pc' = "start"
    /\ UNCHANGED <<is_running, network_queue, file_queue, micFrames, savedFrames, serverVars>>

\* _pyaudio_callback, on the audio thread: while the flag is set the data is
\* queued for the network, and for the file when there is one
MicCallback ==
    /\ cli_pc = "gather"
    /\ micFrames < MaxFrames
    /\ micFrames' = micFrames + 1
    /\ IF is_running
       THEN /\ network_queue' = network_queue + 1
            /\ file_queue' = IF wave_file # "none" THEN file_queue + 1 ELSE file_queue
       ELSE UNCHANGED <<network_queue, file_queue>>
    /\ UNCHANGED <<cli_pc, is_running, net_pc, tui_pc, save_pc, wave_file, savedFrames, serverVars>>

\* Faulty variant of NetFinally: the flag is left as it is.
NetFinally_KeepsFlag ==
    /\ net_pc' = "done"
    /\ UNCHANGED is_running

\* network_task: the finally block, "state.is_running = False"
NetFinally ==
    /\ net_pc' = "done"
    /\ is_running' = FALSE

\* websockets.connect succeeds
NetConnect ==
    /\ net_pc = "connect"
    /\ net_pc' = "test"
    /\ UNCHANGED <<cli_pc, is_running, tui_pc, save_pc, wave_file, network_queue, file_queue,
                   micFrames, savedFrames, serverVars>>

\* websockets.connect raises (ConnectionRefusedError, InvalidURI, another
\* exception): the except clause sets the status text, then the finally block
NetConnectFail ==
    /\ net_pc = "connect"
    /\ NetFinally
    /\ UNCHANGED <<cli_pc, tui_pc, save_pc, wave_file, network_queue, file_queue,
                   micFrames, savedFrames, serverVars>>

\* "while state.is_running": wait for the queue, or leave the loop and the
\* connection, then the finally block
NetTest ==
    /\ net_pc = "test"
    /\ IF is_running
       THEN net_pc' = "wait" /\ UNCHANGED is_running
       ELSE NetFinally
    /\ UNCHANGED <<cli_pc, tui_pc, save_pc, wave_file, network_queue, file_queue,
                   micFrames, savedFrames, serverVars>>

\* wait_for(network_queue.get(), 0.1) returns a chunk
NetGet ==
    /\ net_pc = "wait"
    /\ network_queue > 0
    /\ network_queue' = network_queue - 1
    /\ net_pc' = "send"
    /\ UNCHANGED <<cli_pc, is_running, tui_pc, save_pc, wave_file, file_queue,
                   micFrames, savedFrames, serverVars>>

\* wait_for times out: "except asyncio.TimeoutError: continue"
NetTimeout ==
    /\ net_pc = "wait"
    /\ network_queue = 0
    /\ net_pc' = "test"
    /\ UNCHANGED <<cli_pc, is_running, tui_pc, save_pc, wave_file, network_queue, file_queue,
                   micFrames, savedFrames, serverVars>>

\* websocket.send returns
NetSend ==
    /\ net_pc = "send"
    /\ net_pc' = "test"
    /\ UNCHANGED <<cli_pc, is_running, tui_pc, save_pc, wave_file, network_queue, file_queue,
                   micFrames, savedFrames, serverVars>>

\* websocket.send raises (ConnectionClosedError, another exception): the
\* except clause, then the finally block
NetSendFail ==
    /\ net_pc = "send"
    /\ NetFinally
    /\ UNCHANGED <<cli_pc, tui_pc, save_pc, wave_file, network_queue, file_queue,
                   micFrames, savedFrames, serverVars>>

\* tui_task, "while state.is_running": render and sleep, or leave the loop
TuiTest ==
    /\ tui_pc = "test"
    /\ tui_pc' = IF is_running THEN "sleep" ELSE "done"
    /\ UNCHANGED <<cli_pc, is_running, net_pc, save_pc, wave_file, network_queue, file_queue,
                   micFrames, savedFrames, serverVars>>

\* asyncio.sleep(0.1) returns
TuiWake ==
    /\ tui_pc = "sleep"
    /\ tui_pc' = "test"
    /\ UNCHANGED <<cli_pc, is_running, net_pc, save_pc, wave_file, network_queue, file_queue,
                   micFrames, savedFrames, serverVars>>

\* save_audio_task: "if not mic.wave_file: return"
SaveStart ==
    /\ save_pc = "start"
    /\ save_pc' = IF wave_file = "none" THEN "done" ELSE "test"
    /\ UNCHANGED <<cli_pc, is_running, net_pc, tui_pc, wave_file, network_queue, file_queue,
                   micFrames, savedFrames, serverVars>>

\* "while state.is_running": wait for the queue, or leave the loop; the
\* finally block closes the file
SaveTest ==
    /\ save_pc = "test"
    /\ IF is_running
       THEN save_pc' = "wait" /\ UNCHANGED wave_file
       ELSE save_pc' = "done" /\ wave_file' = "closed"
    /\ UNCHANGED <<cli_pc, is_running, net_pc, tui_pc, network_queue, file_queue,
                   micFrames, savedFrames, serverVars>>

\* wait_for(file_queue.get(), 0.1) returns data and writeframes writes it
SaveGet ==
    /\ save_pc = "wait"
    /\ file_queue > 0
    /\ file_queue' = file_queue - 1
    /\ savedFrames' = savedFrames + 1
    /\ save_pc' = "test"
    /\ UNCHANGED <<cli_pc, is_running, net_pc, tui_pc, wave_file, network_queue,
                   micFrames, serverVars>>

\* wait_for returns data and writeframes raises: the finally block closes
\* the file and the exception leaves the task
SaveWriteFail ==
    /\ save_pc = "wait"
    /\ file_queue > 0
    /\ file_queue' = file_queue - 1
    /\ wave_file' = "closed"
    /\ save_pc' = "failed"
    /\ UNCHANGED <<cli_pc, is_running, net_pc, tui_pc, network_queue,
                   micFrames, savedFrames, serverVars>>

\* wait_for times out: "except asyncio.TimeoutError: continue"
SaveTimeout ==
    /\ save_pc = "wait"
    /\ file_queue = 0
    /\ save_pc' = "test"
    /\ UNCHANGED <<cli_pc, is_running, net_pc, tui_pc, wave_file, network_queue, file_queue,
                   micFrames, savedFrames, serverVars>>

\* amain: gather returns when the three tasks are done, or raises as soon as
\* one of them has raised; the finally block clears the flag and stops the
\* microphone
AmainFinally ==
    /\ cli_pc = "gather"
    /\ \/ save_pc = "failed"
       \/ net_pc = "done" /\ tui_pc = "done" /\ save_pc = "done"
    /\ is_running' = FALSE
    /\ cli_pc' = "finished"
    /\ UNCHANGED <<net_pc, tui_pc, save_pc, wave_file, network_queue, file_queue,
                   micFrames, savedFrames, serverVars>>

\* the steps of tui_task
TuiStep == TuiTest \/ TuiWake

\* the steps of save_audio_task
SaveStep == SaveStart \/ SaveTest \/ SaveGet \/ SaveWriteFail \/ SaveTimeout

NextCli ==
    \/ \E fileOk \in BOOLEAN : CliStart(fileOk)
    \/ MicCallback
    \/ NetConnect
    \/ NetConnectFail
    \/ NetTest
    \/ NetGet
    \/ NetTimeout
    \/ NetSend
    \/ NetSendFail
    \/ TuiTest
    \/ TuiWake
    \/ SaveStart
    \/ SaveTest
    \/ SaveGet
    \/ SaveWriteFail
    \/ SaveTimeout
    \/ AmainFinally

\* The event loop runs every task that is ready and every timer fires: the
\* display task and the file-saving task each keep taking steps.
SpecCli ==
    /\ Init
    /\ [][NextCli]_vars
    /\ WF_vars(TuiStep)
    /\ WF_vars(SaveStep)

-----------------------------------------------------------------------------
\* Two connections, each with the session get_pipeline made for it, on one
\* event loop.

\* the session the variables describe, as a record
ThisSession ==
    [pc |-> pc, chunk |-> chunk, received |-> received, nIn |-> nIn,
     vad_buffer |-> vad_buffer, vadCalls |-> vadCalls, vadInput |-> vadInput,
     lastVad |-> lastVad, active_llm_task |-> active_llm_task, tasks |-> tasks,
     nSpawned |-> nSpawned, nPolls |-> nPolls, nFinal |-> nFinal,
     outbound |-> outbound, flushes |-> flushes, exitCause |-> exitCause,
     fed |-> fed, nFeeds |-> nFeeds]

\* Faulty variant of SwitchBuffer: the frame buffer is one object shared by
\* the sessions.
SwitchBuffer_Shared == vad_buffer

\* self._vad_buffer of the session that runs next: the bytearray its own
\* __init__ made
SwitchBuffer == other.vad_buffer

\* The event loop goes from a coroutine of one session to a coroutine of the
\* other; it can do so when run of the first is suspended. The stream
\* handlers are not in use under the interfaces and stay as made.
Switch ==
    /\ IngestSuspended \/ pc = "connecting"
    /\ other' = ThisSession
    /\ focus' = 3 - focus
    /\ pc' = other.pc
    /\ chunk' = other.chunk
    /\ received' = other.received
    /\ nIn' = other.nIn
    /\ vad_buffer' = SwitchBuffer
    /\ vadCalls' = other.vadCalls
    /\ vadInput' = other.vadInput
    /\ lastVad' = other.lastVad
    /\ active_llm_task' = other.active_llm_task
    /\ tasks' = other.tasks
    /\ nSpawned' = other.nSpawned
    /\ nPolls' = other.nPolls
    /\ nFinal' = other.nFinal
    /\ outbound' = other.outbound
    /\ flushes' = other.flushes
    /\ exitCause' = other.exitCause
    /\ fed' = other.fed
    /\ nFeeds' = other.nFeeds
    /\ UNCHANGED <<svVars, spawnedAt, workers, recVars, cliVars>>

NextTwo ==
    \/ Switch
    \/ Open
    \/ nIn < MaxTwoInbound /\ Receive(TwoChunkSize)
    \/ Disconnect
    \/ FeedReturn
    \/ \E b \in BOOLEAN : VadFrame(b)
    \/ PollNone
    \/ PollTranscript
    \/ AExitReturn
    \/ \E t \in TaskIds :
          \/ TaskStart(t)
          \/ LlmReturn(t)
          \/ TtsChunk(t)
          \/ TtsEnd(t)
          \/ SendReturn(t)
          \/ CancelDeliver(t)

SpecTwo == Init /\ [][NextTwo]_vars

-----------------------------------------------------------------------------
\* One SenseVoiceStreamHandler, its methods called in any order.

\* calls of the methods so far
HandlerCalls == nFeeds + nPolls + flushes

\* feed_audio(audio_chunk) with the next n bytes of the stream
HFeed(n) ==
    /\ HandlerCalls < MaxCalls
    /\ ProcessBuffer(BCat(asr_buffer, <<<<received, received + n>>>>), FALSE)
    /\ received' = received + n
    /\ nIn' = nIn + 1
    /\ fed' = BCat(fed, <<<<received, received + n>>>>)
    /\ nFeeds' = nFeeds + 1
    /\ UNCHANGED <<pc, chunk, bufferVars, lastVad, taskVars, pollVars, exitVars>>
    /\ UNCHANGED <<polled, vadErrors, peerVars, spawnedAt, workers, recVars, cliVars>>

\* get_finalized_transcript()
HPoll ==
    /\ HandlerCalls < MaxCalls
    /\ polled' = Append(polled, PollResult(asr_finalized))
    /\ asr_finalized' = SlotAfterPoll(asr_finalized)
    /\ nPolls' = nPolls + 1
    /\ UNCHANGED <<pc, chunk, received, nIn, bufferVars, lastVad, taskVars, nFinal>>
    /\ UNCHANGED <<exitVars, feedVars, vadErrors, peerVars, spawnedAt, workers, recVars, cliVars>>
    /\ UNCHANGED <<asr_buffer, asrInput, asrCalls, asrErrors, asrFinalCalls, asrSegments>>

\* __aexit__(...)
HAExit ==
    /\ HandlerCalls < MaxCalls
    /\ ProcessBuffer(asr_buffer, TRUE)
    /\ flushes' = flushes + 1
    /\ UNCHANGED <<pc, chunk, received, nIn, bufferVars, lastVad, taskVars, pollVars>>
    /\ UNCHANGED <<exitCause, feedVars, polled, vadErrors, peerVars, spawnedAt, workers, recVars, cliVars>>

NextHandler ==
    \/ \E n \in SvChunkSizes : HFeed(n)
    \/ HPoll
    \/ HAExit

SpecHandler == Init /\ [][NextHandler]_vars

-----------------------------------------------------------------------------
\* Fair scheduling.

\* the steps run takes without suspending: the frame loop and the poll
IngestRun ==
    \/ \E b \in BOOLEAN : VadFrame(b)
    \/ VadRaise
    \/ PollNone
    \/ PollTranscript
    \/ PollRaise

\* the steps of task t
TaskStep(t) ==
    \/ TaskStart(t)
    \/ LlmReturn(t)
    \/ LlmRaise(t)
    \/ TtsChunk(t)
    \/ TtsEnd(t)
    \/ TtsRaise(t)
    \/ SendReturn(t)
    \/ SendRaise(t)
    \/ CancelDeliver(t)

\* The event loop is fair: run goes on until it suspends, and a task that can
\* take a step (its awaited call has an answer) is eventually resumed.
SpecFair ==
    /\ Spec
    /\ WF_vars(IngestRun)
    /\ \A t \in TaskIds : WF_vars(TaskStep(t))

\* The flush of the recognition scope terminates; nothing is assumed of the
\* tasks.
SpecClose == Spec /\ WF_vars(AExitReturn)


-----------------------------------------------------------------------------
\* Properties.

\* the session is in its active state (the loop of run has not ended)
Active == pc \in {"recv", "feed", "vad"}

\* the loop of run has ended after the recognition stream was opened
Left == pc \in {"exiting", "closed"} /\ exitCause # "open_failed"

\* the chunks of task t on the outbound channel
SentBy(out, t) == Cardinality({i \in 1 .. Len(out) : out[i][1] = t})

\* C1: at most one reply task is in its send phase, i.e. in the loop that
\* fetches synthesized chunks and writes them to the outbound channel with no
\* cancellation requested.
C1_SingleWriter ==
    Cardinality({t \in TaskIds : InSendLoop(t) /\ tasks[t].cancelBy = "none"}) <= 1

\* C2: chunks of different reply tasks never interleave on the outbound
\* channel: after a chunk of a later task no chunk of an earlier task follows.
C2_NoInterleaving ==
    \A i, j \in 1 .. Len(outbound) :
        i < j => outbound[i][1] <= outbound[j][1]

\* C3: at most one reply task of the session is non-terminal (started and
\* running in the language-model call or in the synthesis/send loop).
C3_AtMostOneRunning ==
    Cardinality({t \in TaskIds : Running(t)}) <= 1

\* C4: a frame classified as speech while the tracked task is non-terminal
\* requests the cancellation of that task and clears the handle in the same
\* step, and a task whose cancellation barge-in requested writes no further
\* chunk to the outbound channel, wherever it was suspended.
C4_BargeInStopsTask ==
    [][ /\ (pc = "vad" /\ vadCalls' = vadCalls + 1 /\ lastVad' = "speech" /\ TaskActive)
            => /\ active_llm_task' = 0
               /\ tasks'[active_llm_task].cancelBy = "bargein"
        /\ \A t \in TaskIds :
              tasks[t].cancelBy = "bargein"
                  => /\ SentBy(outbound', t) = SentBy(outbound, t)
                     /\ tasks'[t].sent = tasks[t].sent
                     /\ tasks'[t].st \in {tasks[t].st, "cancelled"}
      ]_vars

\* C4 witness: a task that had written a chunk was cancelled by barge-in while
\* suspended in the synthesis/send loop, and the handle is empty.
C4_Witness ==
    \E t \in TaskIds :
        /\ tasks[t].cancelBy = "bargein"
        /\ tasks[t].st = "cancelled"
        /\ tasks[t].sent >= 1
        /\ active_llm_task = 0

\* C5: right after a speech-positive frame has been processed, every reply
\* task of the session that is running has its cancellation requested.
C5_BargeInCancelsAll ==
    (pc = "vad" /\ lastVad = "speech")
        => \A t \in TaskIds : Running(t) => tasks[t].cancelBy # "none"

\* C6 as stated: the session is not closed before the task it tracked when it
\* left the active state is terminal.
C6_ClosedAfterTaskTerminal ==
    (pc = "closed" /\ active_llm_task # 0) => Done(active_llm_task)

\* C6 as amended: when the loop of run has ended, the tracked task is terminal
\* or its cancellation has been requested (before the recognition scope is
\* released); the session does not wait for the task to end.
C6_CancelRequestedAtExit ==
    (Left /\ active_llm_task # 0)
        => \/ Done(active_llm_task)
           \/ tasks[active_llm_task].cancelBy = "close"

\* C6 witness: the session is closed while the tracked task, cancelled by the
\* finally block, has not ended yet.
C6_Witness ==
    /\ pc = "closed"
    /\ active_llm_task # 0
    /\ Live(active_llm_task)
    /\ tasks[active_llm_task].cancelBy = "close"

\* C7: once the session is closed, every reply task it spawned that is still
\* running has its cancellation requested.
C7_AllCancelledAtClose ==
    (pc = "closed") => \A t \in TaskIds : Running(t) => tasks[t].cancelBy # "none"

\* C8: the recognition stream's scope exit is never executed while the session
\* is active (or connecting), and it has been executed exactly once whenever
\* the loop has ended, whatever ended it.
C8_FlushExactlyOnce ==
    /\ (pc = "connecting" \/ Active) => flushes = 0
    /\ Left => flushes = 1

\* C8 witness: the session is closed after an exception raised while a chunk
\* was processed, and the scope exit ran.
C8_Witness ==
    /\ pc = "closed"
    /\ exitCause = "chunk_error"
    /\ vadCalls >= 1
    /\ flushes = 1

\* every received chunk has been processed to the end: the loop waits for the
\* next chunk, or ended while it waited
PassDone ==
    \/ pc = "recv"
    \/ Left /\ exitCause \in {"disconnect", "stream_error"}

\* C9: when all received chunks, of total length T, have been processed, the
\* number of frames handed to voice-activity detection is T div F and the frame
\* buffer holds T mod F bytes.
C9_FrameCount ==
    PassDone => /\ vadCalls = received \div VAD_CHUNK_SIZE
                /\ BLen(vad_buffer) = received % VAD_CHUNK_SIZE

\* C9 witness: several chunks were processed, frames were evaluated and a
\* remainder is buffered at the end of the session.
C9_Witness ==
    /\ pc = "closed"
    /\ exitCause = "disconnect"
    /\ nIn >= 2
    /\ vadCalls >= 2
    /\ BLen(vad_buffer) > 0

\* C10: whenever the loop waits for the next inbound chunk, the frame buffer
\* holds fewer bytes than one frame.
C10_BufferBelowFrame ==
    pc = "recv" => BLen(vad_buffer) < VAD_CHUNK_SIZE

\* C10 witness: the loop waits for a chunk after a pass that evaluated frames,
\* with an empty buffer in one case and a non-empty one in the other.
C10_Witness ==
    /\ pc = "recv"
    /\ nIn >= 1
    /\ vadCalls >= 1
    /\ BLen(vad_buffer) \in {0, 100}

\* the bytes at stream positions 0 .. n-1, in order
Stream(n) == IF n = 0 THEN <<>> ELSE <<<<0, n>>>>

\* C11: the frames handed to voice-activity detection, concatenated in the
\* order they were evaluated and followed by the buffered remainder, are the
\* inbound chunks concatenated in arrival order (while feed_audio is
\* suspended, the chunks before the current one).
C11_FramesAreTheStream ==
    /\ (pc \in {"recv", "vad"} \/ PassDone)
           => BCat(vadInput, vad_buffer) = Stream(received)
    /\ pc = "feed"
           => BCat(vadInput, vad_buffer) = Stream(received - BLen(chunk))

\* C11 witness: three chunks were processed, frames cut across chunk
\* boundaries were evaluated and a remainder is buffered.
C11_Witness ==
    /\ pc = "recv"
    /\ nIn = 3
    /\ vadCalls >= 3
    /\ vadInput = Stream(vadCalls * VAD_CHUNK_SIZE)
    /\ BLen(vad_buffer) > 0

\* C12: the tasks spawned are exactly one per poll that returned a
\* transcript, each carrying that transcript; voice-activity results and polls
\* that return none spawn nothing.
C12_OneTaskPerTranscript ==
    /\ nSpawned = nFinal
    /\ nFinal <= nPolls
    /\ \A t \in TaskIds :
          /\ (t <= nFinal) <=> (tasks[t].st # "none")
          /\ (t <= nFinal) => tasks[t].text = t

\* C12 witness: frames were evaluated, one poll returned none and two polls
\* returned a transcript, and the second task carries the second transcript.
C12_Witness ==
    /\ vadCalls >= 1
    /\ nPolls = 3
    /\ nFinal = 2
    /\ tasks[2].st # "none"
    /\ tasks[2].text = 2

\* the chunks of task t on the outbound channel, in order
ChunksOf(out, t) == LET Mine(c) == c[1] = t IN SelectSeq(out, Mine)

\* C13: what a task has written to the outbound channel is a prefix of its
\* synthesis stream, in order, with nothing duplicated or skipped, and a chunk
\* is sent before the next one is fetched.
C13_SentIsPrefixOfStream ==
    \A t \in TaskIds :
        /\ ChunksOf(outbound, t) = [i \in 1 .. tasks[t].sent |-> <<t, i>>]
        /\ tasks[t].fetched \in {tasks[t].sent, tasks[t].sent + 1}
        /\ tasks[t].st = "fetch" => tasks[t].fetched = tasks[t].sent
        /\ tasks[t].st = "send" => tasks[t].fetched = tasks[t].sent + 1

\* C13 witness: a task has sent two chunks, in stream order, and waits for the
\* next one.
C13_Witness ==
    \E t \in TaskIds :
        /\ tasks[t].sent = 2
        /\ tasks[t].st = "fetch"
        /\ ChunksOf(outbound, t) = <<<<t, 1>>, <<t, 2>>>>

\* C14: a task spawned for a transcript eventually completes, having called
\* the language model and forwarded every chunk its stream yielded, unless its
\* cancellation is requested (speech frame, disconnect) or a provider fails.
C14_ReplyCompletes ==
    /\ \A t \in TaskIds :
          (tasks[t].st = "new")
              ~> \/ tasks[t].st = "completed"
                 \/ tasks[t].st = "failed"
                 \/ tasks[t].cancelBy # "none"
    /\ [](\A t \in TaskIds :
            tasks[t].st = "completed"
                => /\ tasks[t].reply # "none"
                   /\ tasks[t].sent = tasks[t].fetched
                   /\ tasks[t].cancelBy = "none")

\* C14 witness: a task completed after forwarding the chunks of its stream,
\* with no cancellation requested.
C14_Witness ==
    \E t \in TaskIds :
        /\ tasks[t].st = "completed"
        /\ tasks[t].text = t
        /\ tasks[t].reply = "reply"
        /\ tasks[t].sent = 2
        /\ tasks[t].cancelBy = "none"

\* C15 as stated: the handle never refers to a task that has completed.
C15_HandleNeverCompleted ==
    active_llm_task # 0 => tasks[active_llm_task].st # "completed"

\* C15 amended: a task that completes leaves the handle as it is, so the
\* handle goes on referring to the completed task; a task in a terminal state
\* is never changed again, in particular no cancellation is requested of it.
C15_HandleKeptOnCompletion ==
    [][\A t \in TaskIds :
          /\ (tasks[t].st # "completed" /\ tasks'[t].st = "completed")
                => active_llm_task' = active_llm_task
          /\ Done(t) => tasks'[t] = tasks[t]]_vars

\* C15 witness: the handle refers to a completed task while a speech frame is
\* handled.
C15_Witness ==
    /\ active_llm_task # 0
    /\ tasks[active_llm_task].st = "completed"
    /\ tasks[active_llm_task].cancelBy = "none"
    /\ pc = "vad"
    /\ lastVad = "speech"

\* C16: a step in which a task reaches a terminal state (completed, cancelled
\* or failed) changes nothing of the ingest loop: its position, the chunk in
\* hand, the buffer and the exit record stay as they are; and with a terminal
\* task present, the poll at the end of a pass can still spawn a task.
C16_TaskOutcomeStaysInTask ==
    /\ [][\A t \in TaskIds :
            (~Done(t) /\ tasks'[t].st \in Terminal)
                => /\ UNCHANGED <<ingestVars, exitVars, pollVars, nSpawned>>
                   /\ UNCHANGED <<active_llm_task, outbound>>]_vars
    /\ []((/\ pc = "vad"
           /\ ~FrameReady
           /\ nSpawned < MaxTasks
           /\ \E t \in TaskIds : tasks[t].st \in {"cancelled", "failed"})
             => ENABLED PollTranscript)

\* C16 witness: the first task failed in the language-model call, the session
\* is active and a second task has been spawned and waits for its first step.
C16_Witness ==
    /\ pc = "recv"
    /\ tasks[1].st = "failed"
    /\ tasks[1].reply = "none"
    /\ tasks[1].cancelBy = "none"
    /\ tasks[2].st = "new"
    /\ active_llm_task = 2

C18_SilenceOnFailure ==
    \A i \in 1 .. Len(outbound) : tasks[outbound[i][1]].reply # "apology"

\* C18 amended: a failed language-model request gives the task the apology
\* text of chat as its reply, which is synthesized and sent like any reply;
\* a step in which a task fails writes nothing, and nothing is written for a
\* task once it is in a terminal state.
C18_ApologyIsSpoken ==
    /\ [](\A t \in TaskIds :
            /\ tasks[t].st \in {"fetch", "send"} => tasks[t].reply \in {"reply", "apology"}
            /\ tasks[t].reply = "apology"
                  => ChunksOf(outbound, t) = [i \in 1 .. tasks[t].sent |-> <<t, i>>])
    /\ [][\A t \in TaskIds :
            /\ (tasks[t].st # "failed" /\ tasks'[t].st = "failed") => outbound' = outbound
            /\ Done(t) => ChunksOf(outbound', t) = ChunksOf(outbound, t)]_vars

\* C18 witness: the request of a task failed and a chunk of the synthesized
\* apology is on the outbound channel.
C18_Witness ==
    \E t \in TaskIds :
        /\ tasks[t].reply = "apology"
        /\ tasks[t].sent >= 1
        /\ \E i \in 1 .. Len(outbound) : outbound[i] = <<t, 1>>

\* C19: when opening the recognition stream failed, run is over at once: the
\* session was never active, so nothing was received, no frame was evaluated,
\* no poll was made, no task was spawned, nothing was sent and no recognition
\* scope was left.
C19_OpenFailureNeverActive ==
    exitCause = "open_failed"
        => /\ pc = "closed"
           /\ nIn = 0 /\ received = 0 /\ chunk = <<>>
           /\ vadCalls = 0 /\ vad_buffer = <<>>
           /\ nPolls = 0 /\ nFinal = 0
           /\ nSpawned = 0 /\ active_llm_task = 0
           /\ \A t \in TaskIds : tasks[t] = NoTask
           /\ outbound = <<>>
           /\ flushes = 0

\* C19 witness: the recognition stream could not be opened and run has ended.
C19_Witness == exitCause = "open_failed" /\ pc = "closed" /\ nIn = 0

\* C20: a frame that is not speech, or a speech frame met while no task is
\* active (the handle is None or refers to a done task), leaves every task,
\* the handle and the outbound channel as they are, and run stays in its frame
\* loop.
C20_BargeInNoOp ==
    [][(/\ pc = "vad"
        /\ vadCalls' = vadCalls + 1
        /\ pc' = "vad"
        /\ (lastVad' = "silence" \/ ~TaskActive))
          => /\ UNCHANGED <<tasks, active_llm_task, outbound, nSpawned>>
             /\ exitCause' = exitCause]_vars

\* C20 witness: a second speech frame in a row is handled while the handle
\* refers to a task that is done.
C20_Witness ==
    /\ pc = "vad"
    /\ lastVad = "speech"
    /\ vadCalls >= 2
    /\ active_llm_task # 0
    /\ Done(active_llm_task)
    /\ tasks[active_llm_task].cancelBy = "none"

\* C21: every chunk received is fed to the recognition stream once, at once
\* and in arrival order; the frames it completes are checked after the feed has
\* returned; the poll is made once no full frame is left, once per chunk; and
\* only after the poll is the next chunk received.
C21_FeedFramesPollPerChunk ==
    /\ [](/\ nFeeds = nIn
          /\ fed = Stream(received)
          /\ pc = "recv" => nPolls = nIn
          /\ pc \in {"feed", "vad"} => nPolls = nIn - 1
          /\ pc = "feed" => chunk = <<<<received - BLen(chunk), received>>>>)
    /\ [][/\ nIn' # nIn
              => /\ pc = "recv" /\ pc' = "feed"
                 /\ nIn' = nIn + 1 /\ nFeeds' = nFeeds + 1
                 /\ fed' = BCat(fed, chunk')
                 /\ nPolls = nIn
          /\ vadCalls' # vadCalls => pc = "vad" /\ nPolls' = nPolls
          /\ nPolls' # nPolls
              => /\ pc = "vad" /\ ~FrameReady
                 /\ nPolls' = nPolls + 1
                 /\ pc' # "vad"
          /\ (pc = "vad" /\ pc' = "recv") => nPolls' = nPolls + 1]_vars

\* C21 witness: three chunks have been received, fed, framed and polled.
C21_Witness ==
    /\ pc = "recv"
    /\ nIn = 3 /\ nFeeds = 3 /\ nPolls = 3
    /\ vadCalls >= 4
    /\ fed = Stream(received)

\* the transcripts among the results of the polls
Returned(p) == LET IsText(x) == x # 0 IN SelectSeq(p, IsText)

\* C22: a finalized transcript is returned by at most one poll. The polls
\* return the transcripts in the order they were finalized, each at most once;
\* a poll that returns a transcript empties the slot, so the next poll returns
\* None unless a transcript has been finalized in between.
C22_PollReturnsOnce ==
    /\ [](/\ \A i, j \in 1 .. Len(Returned(polled)) :
                i < j => Returned(polled)[i] < Returned(polled)[j]
          /\ \A i \in 1 .. Len(polled) : polled[i] <= asrSegments
          /\ asr_finalized # 0
                => /\ asr_finalized = asrSegments
                   /\ \A i \in 1 .. Len(polled) : polled[i] # asr_finalized)
    /\ [][Len(polled') > Len(polled)
            => /\ polled' = Append(polled, asr_finalized)
               /\ asr_finalized' = 0
               /\ asrSegments' = asrSegments]_vars
    /\ [][(/\ Len(polled) > 0
           /\ polled[Len(polled)] # 0
           /\ asrSegments = polled[Len(polled)]
           /\ Len(polled') > Len(polled))
            => polled'[Len(polled')] = 0]_vars

\* C22 witness: a poll returned the first transcript, the next poll returned
\* None, and after another flush a poll returned the second transcript.
C22_Witness ==
    /\ Len(polled) = 3
    /\ polled = <<1, 0, 2>>
    /\ asr_finalized = 0
    /\ asrSegments = 2

\* C23: once the recognition scope has been left, the model has been called
\* with the final flag exactly once, every byte fed has been passed to the
\* model, and the buffer of the handler is empty.
C23_FinalFlushComplete ==
    (pc = "closed" /\ exitCause # "open_failed")
        => /\ asrFinalCalls = 1
           /\ asr_buffer = <<>>
           /\ asrInput = fed

\* C24: once the inbound stream has disconnected or failed, run has left its
\* loop, and it eventually returns, whatever state the tasks are in.
C24_DisconnectLeadsToClosed ==
    /\ [](exitCause \in {"disconnect", "stream_error"} => pc \in {"exiting", "closed"})
    /\ (exitCause \in {"disconnect", "stream_error"}) ~> (pc = "closed")

\* C24 witness: the client disconnected while the tracked task was waiting for
\* the language model; run has returned and the task has not yet taken another
\* step.
C24_Witness ==
    /\ pc = "closed"
    /\ exitCause = "disconnect"
    /\ active_llm_task # 0
    /\ tasks[active_llm_task].st = "llm"
    /\ tasks[active_llm_task].cancelBy = "close"

\* C25: while a task is suspended in the language-model call, in a chunk
\* fetch or in a send, every next step of the ingest loop is possible: to
\* receive a chunk, to have the feed return, to check a frame (speech or not),
\* to poll with either answer.
C25_TaskDoesNotBlockIngest ==
    (\E t \in TaskIds : Running(t))
        => /\ (pc = "recv" /\ nIn < MaxInbound)
                 => \A n \in ChunkSizes : ENABLED Receive(n)
           /\ pc = "feed" => ENABLED FeedReturn
           /\ (pc = "vad" /\ FrameReady)
                 => ENABLED VadFrame(TRUE) /\ ENABLED VadFrame(FALSE)
           /\ (pc = "vad" /\ ~FrameReady) => ENABLED PollNone
           /\ (pc = "vad" /\ ~FrameReady /\ nSpawned < MaxTasks)
                 => ENABLED PollTranscript

\* C25 witness: a task started and, while it was suspended in the
\* language-model call, a later chunk was received and fed and one of its
\* frames, classified as speech, requested the cancellation of the task.
C25_Witness ==
    \E t \in TaskIds :
        /\ tasks[t].st = "llm"
        /\ tasks[t].cancelBy = "bargein"
        /\ pc = "vad"
        /\ lastVad = "speech"

\* C26: once run has left its loop it stays out of it, and from then on
\* nothing is received or fed, no frame is checked, no poll is made and no
\* task is spawned; once run has returned it stays returned.
C26_ClosedIsTerminal ==
    [][(pc \in {"exiting", "closed"})
         => /\ pc' \in {"exiting", "closed"}
            /\ (pc = "closed" => pc' = "closed")
            /\ UNCHANGED <<received, nIn, feedVars, bufferVars, pollVars>>
            /\ UNCHANGED <<nSpawned, active_llm_task, exitVars>>
            /\ (\A t \in TaskIds : tasks[t].st = "none" => tasks'[t].st = "none")]_vars

\* C26 witness: run has returned after a disconnect that followed three full
\* passes, and the task it cancelled on the way out has since ended.
C26_Witness ==
    /\ pc = "closed"
    /\ exitCause = "disconnect"
    /\ nIn = 3 /\ nPolls = 3
    /\ \E t \in TaskIds : tasks[t].st = "cancelled" /\ tasks[t].cancelBy = "close"

\* C27: a task is created not done, stays not done until it moves to one of
\* completed, cancelled or failed, and from then on never changes and writes
\* nothing; it ends cancelled only when its cancellation was requested.
C27_TaskLifecycle ==
    [][\A t \in TaskIds :
          /\ tasks[t].st = "none" => tasks'[t].st \in {"none", "new"}
          /\ Live(t) => (Live(t)' \/ Done(t)')
          /\ (Live(t) /\ tasks'[t].st = "cancelled") => tasks[t].cancelBy # "none"
          /\ (Live(t) /\ tasks'[t].st \in {"completed", "failed"})
                => tasks[t].cancelBy = "none"
          /\ Done(t) => /\ tasks'[t] = tasks[t]
                        /\ ChunksOf(outbound', t) = ChunksOf(outbound, t)]_vars

\* C27 witness: one task has ended cancelled and another completed after
\* sending a chunk.
C27_Witness ==
    \E t, u \in TaskIds :
        /\ tasks[t].st = "cancelled"
        /\ tasks[u].st = "completed"
        /\ tasks[u].sent >= 1
        /\ ChunksOf(outbound, u) # <<>>

\* C28: the outbound channel only grows, by one chunk appended at a time, and
\* a step that requests a cancellation or ends a task as cancelled leaves it
\* as it is.
C28_OutboundAppendOnly ==
    [][/\ \/ outbound' = outbound
          \/ /\ Len(outbound') = Len(outbound) + 1
             /\ SubSeq(outbound', 1, Len(outbound)) = outbound
       /\ (\E t \in TaskIds :
              \/ tasks'[t].cancelBy # tasks[t].cancelBy
              \/ (tasks[t].st # "cancelled" /\ tasks'[t].st = "cancelled"))
            => outbound' = outbound]_vars

\* C28 witness: a task that had sent a chunk was cancelled by a speech frame,
\* and its chunk is still on the outbound channel.
C28_Witness ==
    \E t \in TaskIds :
        /\ tasks[t].st = "cancelled"
        /\ tasks[t].cancelBy = "bargein"
        /\ tasks[t].sent >= 1
        /\ ChunksOf(outbound, t) = [i \in 1 .. tasks[t].sent |-> <<t, i>>]

\* what a session's own operations account for: its frames and buffer are
\* its own inbound stream, and its outbound channel holds the chunks its own
\* tasks have sent
OwnStateOnly(s) ==
    /\ s.pc \in {"connecting", "recv", "exiting", "closed"}
          => BCat(s.vadInput, s.vad_buffer) = Stream(s.received)
    /\ \A t \in TaskIds :
          ChunksOf(s.outbound, t) = [i \in 1 .. s.tasks[t].sent |-> <<t, i>>]
    /\ s.active_llm_task # 0 => s.tasks[s.active_llm_task].st # "none"

\* C29: a step of one session leaves the other session as it is (its frame
\* buffer, handle, tasks and outbound channel among the rest); when the event
\* loop goes over to the other session, that session is found as it was left;
\* and each session's buffer and channel hold what its own steps put there.
C29_SessionsIsolated ==
    /\ [][/\ focus' = focus => other' = other
          /\ focus' # focus => (other' = ThisSession /\ ThisSession' = other)]_vars
    /\ [](OwnStateOnly(other) /\ (IngestSuspended => OwnStateOnly(ThisSession)))

\* C29 witness: both sessions hold bytes in their frame buffers; in one a
\* speech frame has requested the cancellation of its task, and in the other
\* the task is running, unaffected, and has sent a chunk.
C29_Witness ==
    /\ vad_buffer # <<>>
    /\ other.vad_buffer # <<>>
    /\ \E t \in TaskIds : Live(t) /\ tasks[t].cancelBy = "bargein"
    /\ \E t \in TaskIds :
          /\ other.tasks[t].st \in {"fetch", "send"}
          /\ other.tasks[t].cancelBy = "none"
          /\ other.tasks[t].sent = 1
          /\ other.outbound = <<<<t, 1>>>>

\* C30: with SenseVoiceStreamHandler the slot is written only in the step of
\* the scope exit, by a call with the final flag; while the session is active
\* the slot is empty and every poll returns None; no transcript is ever
\* polled and no task is ever made.
C30_FlushTranscriptNeverPolled ==
    /\ [](/\ Active => (asr_finalized = 0 /\ asrSegments = 0 /\ asrFinalCalls = 0)
          /\ Len(polled) = nPolls
          /\ \A i \in 1 .. Len(polled) : polled[i] = 0
          /\ nFinal = 0 /\ nSpawned = 0 /\ active_llm_task = 0
          /\ \A t \in TaskIds : tasks[t] = NoTask)
    /\ [][/\ asr_finalized' # asr_finalized
              => /\ pc = "exiting" /\ pc' = "closed"
                 /\ asrFinalCalls' = asrFinalCalls + 1
                 /\ asr_finalized' # 0
          /\ Len(polled') # Len(polled) => (pc = "vad" /\ pc' = "recv")]_vars

\* C30 witness: three passes polled None each, the client disconnected, and
\* the closing flush left a transcript in the slot that nothing will poll.
C30_Witness ==
    /\ pc = "closed"
    /\ exitCause = "disconnect"
    /\ polled = <<0, 0, 0>>
    /\ asr_finalized # 0
    /\ asrSegments = 1
    /\ nSpawned = 0


-----------------------------------------------------------------------------
\* C31: the handle is always empty or the most recently spawned task. It is
\* written only by a spawn, which sets it to the new task and leaves every
\* earlier task as it was (not cancelled), and by a barge-in on a speech frame,
\* which requests cancellation of the task it referred to and empties it. No
\* step of a task and no step of the session's close writes it.
C31_HandleWriters ==
    [][/\ active_llm_task \in {0, nSpawned}
       /\ active_llm_task' \in {0, nSpawned'}
       /\ (active_llm_task' # active_llm_task) =>
            \/ /\ pc = "vad"
               /\ nSpawned' = nSpawned + 1
               /\ active_llm_task' = nSpawned'
               /\ nFinal' = nFinal + 1
               /\ (\A t \in 1 .. nSpawned : tasks'[t] = tasks[t])
            \/ /\ pc = "vad"
               /\ lastVad' = "speech"
               /\ TaskActive
               /\ active_llm_task' = 0
               /\ nSpawned' = nSpawned
               /\ tasks' = CancelTask(tasks, active_llm_task, "bargein")]_vars

\* a spawn has replaced the handle of a task that is still running and has
\* no cancellation requested
C31_Witness ==
    /\ nSpawned = 2
    /\ active_llm_task = 2
    /\ Running(1)
    /\ tasks[1].cancelBy = "none"
    /\ tasks[2].st = "new"

-----------------------------------------------------------------------------
\* C32: in the iteration for one chunk the frames are decided before the
\* poll. A poll is taken only when no complete frame is left in the bytes
\* received so far, a frame is decided only while the poll of the current
\* iteration is still to come, and a barge-in requests cancellation only of a
\* task made in the iteration of an earlier chunk: a task made after chunk k
\* is never cancelled by a frame decided in the iteration of chunk k or of an
\* earlier one.
C32_BargeInOnlyFromLaterChunk ==
    [][/\ (nPolls' # nPolls) =>
            /\ ~FrameReady
            /\ vadCalls = received \div VAD_CHUNK_SIZE
       /\ (vadCalls' # vadCalls) => nPolls = nIn - 1
       /\ (\A t \in TaskIds :
             (tasks'[t].cancelBy = "bargein" /\ tasks[t].cancelBy # "bargein") =>
                 /\ spawnedAt[t] >= 1
                 /\ spawnedAt[t] < nIn
                 /\ vadCalls' * VAD_CHUNK_SIZE > received - BLen(chunk))]_vars

\* a speech frame completed by the third chunk has cancelled the task made
\* after the second chunk
C32_Witness ==
    /\ nIn = 3
    /\ pc = "vad"
    /\ spawnedAt[1] = 2
    /\ tasks[1].cancelBy = "bargein"
    /\ lastVad = "speech"

-----------------------------------------------------------------------------
\* C33: as long as the model has raised no error, after every call of
\* feed_audio the buffer of the handler holds fewer than 9600 bytes, and the
\* inputs of the model in call order followed by the buffer are the fed chunks
\* in the order they were fed: no byte is lost, repeated or reordered.
C33_FeedPartitionsTheStream ==
    (asrErrors = 0) =>
        /\ BLen(asr_buffer) < chunk_size
        /\ BCat(asrInput, asr_buffer) = fed
        /\ fed = Stream(received)
        /\ (flushes = 0) => /\ asrCalls = received \div chunk_size
                            /\ BLen(asrInput) = asrCalls * chunk_size

\* three feeds without an error: two full chunks went to the model and a
\* remainder is buffered
C33_Witness ==
    /\ asrErrors = 0
    /\ flushes = 0
    /\ nFeeds = 3
    /\ asrCalls = 2
    /\ BLen(asr_buffer) = 100 + VAD_CHUNK_SIZE

-----------------------------------------------------------------------------
\* C34: for one stream handler no two executions of _process_buffer overlap:
\* the worker thread started by feed_audio has finished when the worker thread
\* of the scope exit starts, however the session ends.
C34_NoOverlappingRuns == ~(Busy("feed") /\ Busy("flush"))

-----------------------------------------------------------------------------
-----------------------------------------------------------------------------
\* C36: in the command-line client, when the network task has ended, for
\* whatever reason, the running flag is false; and from then on the display
\* task and the file-saving task eventually end and the recording file, when
\* there is one, is closed.
C36_NetworkEndStopsClient ==
    /\ [](net_pc = "done" => ~is_running)
    /\ (net_pc = "done") ~>
           (/\ tui_pc = "done"
            /\ save_pc \in {"done", "failed"}
            /\ wave_file # "open")

\* the connection was lost in a send while the other two tasks were in their
\* loops; both have ended since and the file, with a frame in it, is closed
C36_Witness ==
    /\ net_pc = "done"
    /\ tui_pc = "done"
    /\ save_pc = "done"
    /\ wave_file = "closed"
    /\ savedFrames >= 1
    /\ network_queue >= 1
    /\ cli_pc = "gather"
=============================================================================
